---- MODULE Spec2Model ----
(***************************************************************************)
(* Model of the retry-driven repair loop of refactor_tool:                 *)
(*   src/tools/post_cmd_tool.py     run_post_with_llm_retry and helpers    *)
(*   src/tools/llm_refactor_tool.py the delimiter codec and the chunked    *)
(*                                  rewrite orchestrator                   *)
(* Text (command strings, command output, LLM replies, file contents) is   *)
(* a sequence of tokens.  "w" is one whitespace character, "B" the marker  *)
(* <<<BEGIN FILE>>>, "E" the marker <<<END FILE>>>; any other token is an  *)
(* ordinary character.  An optional value (None, a missing file) is the    *)
(* empty sequence, a present value v is the one-element sequence <<v>>.    *)
(***************************************************************************)
EXTENDS Integers, Sequences, FiniteSets, TLC

VARIABLES
    pc,             \* position inside run_post_with_llm_retry
    command,        \* argument: the shell command (text)
    retries,        \* argument: None or an integer
    llm,            \* argument: None or the [llm] configuration dict
    refactor_callable, \* argument: callable(refactor_fn)
    rc, out,        \* locals: exit code and output of the latest run
    attempts,       \* local: repair attempts started
    ro_plus,        \* local: read-only list handed to refactor_fn
    lastOut,        \* the file log/post_last.txt (LAST_OUT)
    lastWrite,      \* outcome of the latest LAST_OUT.write_text
    postLog,        \* the file log/post_log.txt (POST_LOG), as records
    execs,          \* results of the run_post_command calls, in order
    spawned,        \* processes spawned by run_post_command
    procs,          \* the results of the spawned processes, once exited
    refactorCalls,  \* refactor_fn invocations, each with its arguments
    ret,            \* None until the function returns, then its value
    exitPath,       \* which return statement was taken
    reply_text,     \* codec: the raw reply returned by _post_and_extract
    n_files,        \* codec: len(file_names) of the multi-file request
    parsed,         \* codec: None, or the outcome of _call_llm_multi
    parsed_one,     \* codec: None, or the text _call_llm returned
    files,          \* orchestrator: the file system, path -> None or text
    editable_files, \* orchestrator argument
    read_only_files, \* orchestrator argument
    ro_context,     \* orchestrator local: the assembled read-only context
    chunk_size,     \* orchestrator argument cfg["chunk_size"], or None
    rpc,            \* position inside refactor_with_context
    ci,             \* index of the chunk being processed
    file_paths,     \* the chunk's present files
    codes,          \* their contents as read before the request
    new_texts,      \* the parsed reply of the chunk
    had_error,      \* local flag
    rret,           \* None until refactor_with_context returns
    examined,       \* editable files looked at so far (p.exists())
    events,         \* requests dispatched and files written, in order
    cfg,            \* client argument: force_json_mode, log, params
    payload_arg,    \* client argument payload, as passed
    payload,        \* the payload dict, modified in place
    cpc,            \* position inside _post_and_extract
    probe,          \* outcome of the GET /models probe
    posted,         \* the payloads POSTed to /chat/completions
    n_posts,        \* number of POSTs
    response,       \* None, or the answer to the latest POST
    warnings,       \* "transient error" warnings printed
    llm_log,        \* the file log/llm_log.txt (LOG_FILE), as records
    cret,           \* None until _post_and_extract returns
    cexc,           \* the exception _post_and_extract raised, or "none"
    ctx_files,      \* context argument read_only_files
    ctx_fs,         \* context: the file system, path -> None or text
    ctx_unreadable, \* context: the existing paths whose read_text raises
    ctx_out,        \* None until _make_ro_context returns
    chk_items,      \* chunking argument items
    chk_size,       \* chunking argument size: None, or an integer
    chk_out,        \* None until _iter_chunks is exhausted, then its chunks
    mpc,            \* main: the step of the pipeline to come
    skip,           \* main: args.skip, the steps named after --skip
    ed_abs,         \* main: llm["editable_expanded"]
    post_cmd,       \* main: post["command"]
    llm_step,       \* main: how the LLM step went, "none" before it
    post_calls,     \* main: calls of run_post_command
    post_spawned,   \* main: processes spawned for the post command
    exit_status,    \* main: None while running, then the exit status
    ran,            \* main: the steps carried out, in order
    pr_doc,         \* presets: the document handed to _prune_presets
    pr_doc0,        \* presets: the document as it was at the call
    pr_selected,    \* presets: argument selected
    pr_ret          \* presets: None until _prune_presets returns

loopVars == <<pc, command, retries, llm, refactor_callable, rc, out, attempts,
              ro_plus, lastOut, lastWrite, postLog, execs, spawned, procs,
              refactorCalls, ret, exitPath>>

codecVars == <<reply_text, n_files, parsed, parsed_one>>

rwcVars == <<files, editable_files, read_only_files, ro_context, chunk_size,
             rpc, ci, file_paths, codes, new_texts, had_error, rret, examined,
             events>>

clientVars == <<cfg, payload_arg, payload, cpc, probe, posted, n_posts,
                response, warnings, llm_log, cret, cexc>>

ctxVars == <<ctx_files, ctx_fs, ctx_unreadable, ctx_out>>

chkVars == <<chk_items, chk_size, chk_out>>

mainVars == <<mpc, skip, ed_abs, post_cmd, llm_step, post_calls, post_spawned,
              exit_status, ran>>

presetVars == <<pr_doc, pr_doc0, pr_selected, pr_ret>>

vars == <<loopVars, codecVars, rwcVars, clientVars, ctxVars, chkVars,
         mainVars, presetVars>>

----------------------------------------------------------------------------
(* Bounds of the model *)

MaxRetries == 2
MaxReplyLen == 6
MaxFiles == 3
MaxEditable == 3
MaxChunkSize == 3
MaxBlocks == 3
MaxPosts == 2
MaxRoFiles == 2
MaxItems == 5
MaxSelected == 2

----------------------------------------------------------------------------
(* Text helpers *)

W == "w"
BEGIN_FILE == "B"
END_FILE == "E"

None == <<>>
Some(v) == <<v>>

RECURSIVE LStrip(_)
LStrip(s) == IF s # <<>> /\ Head(s) = W THEN LStrip(Tail(s)) ELSE s

RECURSIVE RStrip(_)
RStrip(s) ==
    IF s # <<>> /\ s[Len(s)] = W THEN RStrip(SubSeq(s, 1, Len(s) - 1)) ELSE s

\* str.strip()
Strip(s) == RStrip(LStrip(s))

----------------------------------------------------------------------------
(* post_cmd_tool.py *)

\* Paths are numbered: the editable candidates are 1, 2, ..., and the
\* side-channel file log/post_last.txt is path 0.
LAST_OUT == 0

\* The inputs of the model: commands, process results, configurations.
Commands == {<<>>, <<W>>, <<W, W>>, <<"m">>}
ExitCodes == {0, 1, 2}
Outputs == {<<>>, <<"x">>, <<"y">>}
\* POST_LOG when run_post_with_llm_retry starts: empty, or holding the
\* record of an earlier run.
PriorLogs ==
    {<<>>, <<[command |-> <<"m">>, rc |-> 1, output |-> <<"x">>]>>}
ProcessResults == [rc : ExitCodes, out : Outputs]
RetriesValues == {None} \cup {Some(n) : n \in -1..MaxRetries}
EditableLists == {<<>>, <<1>>, <<1, 2>>}
ReadOnlyLists == {<<>>, <<1>>}
LlmValues ==
    {None} \cup {Some([editable_expanded |-> e, read_only_expanded |-> r]) :
                    e \in EditableLists, r \in ReadOnlyLists}
WriteOutcomes == {"ok", "fail", "fail_truncated"}
RefactorOutcomes == {"true", "false", "raise"}

\* A run_post_command that tests the command for emptiness only.
run_post_command_NoStrip(cmd, p) ==
    IF cmd = <<>>
    THEN [rc |-> 0, out |-> <<>>, spawned |-> 0]
    ELSE [rc |-> p.rc, out |-> p.out, spawned |-> 1]

\* run_post_command: a blank command spawns nothing and yields (0, "");
\* otherwise the result is the spawned process's result p.
run_post_command(cmd, p) ==
    IF cmd = <<>> \/ Strip(cmd) = <<>>
    THEN [rc |-> 0, out |-> <<>>, spawned |-> 0]
    ELSE [rc |-> p.rc, out |-> p.out, spawned |-> 1]

\* A logger that opens POST_LOG with mode "w".
log_post_output_Overwrite(log, cmd, code, output) ==
    <<[command |-> cmd, rc |-> code, output |-> output]>>

\* log_post_output, lines 27-34: POST_LOG is opened with mode "a".
log_post_output(log, cmd, code, output) ==
    Append(log, [command |-> cmd, rc |-> code, output |-> output])

\* can_retry without the editable_expanded test.
can_retry_NoEditableTest ==
    /\ retries # None /\ retries[1] # 0 /\ retries[1] > 0
    /\ llm # None
    /\ refactor_callable

\* can_retry, lines 41-46.
can_retry ==
    /\ retries # None /\ retries[1] # 0 /\ retries[1] > 0
    /\ llm # None
    /\ refactor_callable
    /\ llm[1].editable_expanded # <<>>

\* Loop conditions that drop the exit-code test, admit one attempt too
\* many, or stop one attempt early.
WhileCond_NoExitCode(code, n) == n < retries[1]
WhileCond_OneMore(code, n) == code # 0 /\ n <= retries[1]
WhileCond_OneLess(code, n) == code # 0 /\ n + 1 < retries[1]

\* The loop condition, line 53.
WhileCond(code, n) == code # 0 /\ n < retries[1]

\* A write that opens the file for appending.
write_text_Append(old, text, outcome) ==
    CASE outcome = "ok" -> Some((IF old = None THEN <<>> ELSE old[1]) \o text)
      [] outcome = "fail" -> old
      [] outcome = "fail_truncated" -> Some(<<>>)

\* LAST_OUT.write_text(out or ""): the file after the call.
write_text(old, text, outcome) ==
    CASE outcome = "ok" -> Some(text)
      [] outcome = "fail" -> old
      [] outcome = "fail_truncated" -> Some(<<>>)

\* The side-channel file put first instead of last.
RoPlus_First(ro) == <<LAST_OUT>> \o ro

\* ro_plus, line 62.
RoPlus(ro) == ro \o <<LAST_OUT>>

\* Only an exception ends the loop; a false result is ignored.
RefactorAborts_OnlyRaise(res) == res = "raise"

\* Lines 82-87: a false result or an exception ends the loop.
RefactorAborts(res) == res \in {"false", "raise"}

\* A return statement that records the value but lets the function run on.
Return_FallThrough(value, path) ==
    /\ ret' = Some(value)
    /\ exitPath' = path
    /\ pc' = "rerun"

Return(value, path) ==
    /\ pc' = "done"
    /\ ret' = Some(value)
    /\ exitPath' = path

\* Lines 37-50.
Start ==
    /\ pc = "start"
    /\ \E p \in ProcessResults :
         LET res == run_post_command(command, p) IN
         /\ rc' = res.rc
         /\ out' = res.out
         /\ spawned' = spawned + res.spawned
         /\ procs' = IF res.spawned = 1 THEN Append(procs, p) ELSE procs
         /\ execs' = Append(execs, [rc |-> res.rc, out |-> res.out])
         /\ postLog' = log_post_output(postLog, command, res.rc, res.out)
         /\ IF ~can_retry
            THEN Return(res.rc, "cannot_retry")
            ELSE pc' = "while" /\ UNCHANGED <<ret, exitPath>>
    /\ UNCHANGED <<command, retries, llm, refactor_callable, attempts, ro_plus,
                   lastOut, lastWrite, refactorCalls>>

\* Line 53, and line 93 when the loop ends.
WhileTest ==
    /\ pc = "while"
    /\ IF WhileCond(rc, attempts)
       THEN pc' = "body" /\ UNCHANGED <<ret, exitPath>>
       ELSE Return(rc, "loop_end")
    /\ UNCHANGED <<command, retries, llm, refactor_callable, rc, out, attempts,
                   ro_plus, lastOut, lastWrite, postLog, execs, spawned, procs,
                   refactorCalls>>

\* A failed write that is not noticed.
WriteFailed_Ignored(w) == FALSE

\* The except branch of lines 57-60 is taken: write_text raised.
WriteFailed(w) == w # "ok"

\* Lines 54-66.
WriteLastOut ==
    /\ pc = "body"
    /\ attempts' = attempts + 1
    /\ \E w \in WriteOutcomes :
         /\ lastOut' = write_text(lastOut, out, w)
         /\ lastWrite' = w
         /\ IF WriteFailed(w)
            THEN Return(rc, "write_failed") /\ UNCHANGED ro_plus
            ELSE /\ ro_plus' = RoPlus(llm[1].read_only_expanded)
                 /\ IF llm[1].editable_expanded = <<>>
                    THEN Return(rc, "no_editable")
                    ELSE pc' = "call" /\ UNCHANGED <<ret, exitPath>>
    /\ UNCHANGED <<command, retries, llm, refactor_callable, rc, out, postLog,
                   execs, spawned, procs, refactorCalls>>

\* Lines 68-87.
CallRefactor ==
    /\ pc = "call"
    /\ \E res \in RefactorOutcomes :
         /\ refactorCalls' =
               Append(refactorCalls,
                      [editable_files |-> llm[1].editable_expanded,
                       read_only_files |-> ro_plus,
                       side_channel |-> lastOut,
                       result |-> res])
         /\ IF RefactorAborts(res)
            THEN Return(rc, IF res = "false" THEN "llm_false" ELSE "llm_error")
            ELSE pc' = "rerun" /\ UNCHANGED <<ret, exitPath>>
    /\ UNCHANGED <<command, retries, llm, refactor_callable, rc, out, attempts,
                   ro_plus, lastOut, lastWrite, postLog, execs, spawned, procs>>

\* A re-run that keeps the old exit code (rc is not reassigned).
Rerun_StaleRc ==
    /\ pc = "rerun"
    /\ \E p \in ProcessResults :
         LET res == run_post_command(command, p) IN
         /\ out' = res.out
         /\ spawned' = spawned + res.spawned
         /\ procs' = IF res.spawned = 1 THEN Append(procs, p) ELSE procs
         /\ execs' = Append(execs, [rc |-> res.rc, out |-> res.out])
         /\ postLog' = log_post_output(postLog, command, res.rc, res.out)
    /\ pc' = "while"
    /\ UNCHANGED <<command, retries, llm, refactor_callable, rc, attempts,
                   ro_plus, lastOut, lastWrite, refactorCalls, ret, exitPath>>

\* Lines 89-91.
Rerun ==
    /\ pc = "rerun"
    /\ \E p \in ProcessResults :
         LET res == run_post_command(command, p) IN
         /\ rc' = res.rc
         /\ out' = res.out
         /\ spawned' = spawned + res.spawned
         /\ procs' = IF res.spawned = 1 THEN Append(procs, p) ELSE procs
         /\ execs' = Append(execs, [rc |-> res.rc, out |-> res.out])
         /\ postLog' = log_post_output(postLog, command, res.rc, res.out)
    /\ pc' = "while"
    /\ UNCHANGED <<command, retries, llm, refactor_callable, attempts, ro_plus,
                   lastOut, lastWrite, refactorCalls, ret, exitPath>>


----------------------------------------------------------------------------
(* llm_refactor_tool.py: the delimiter codec *)

\* Index of the first token tok of r at or after position from; 0 if none.
RECURSIVE FindToken(_, _, _)
FindToken(r, tok, from) ==
    IF from > Len(r) THEN 0
    ELSE IF r[from] = tok THEN from
    ELSE FindToken(r, tok, from + 1)

\* MARKER_RE.search from a position: the leftmost BEGIN marker that has an
\* END marker after it, up to the first such END marker (.*? is lazy).
\* group(1) excludes the whitespace next to the markers (the two \s*).
MarkerSearch(r, from) ==
    LET i == FindToken(r, BEGIN_FILE, from)
        j == IF i = 0 THEN 0 ELSE FindToken(r, END_FILE, i + 1) IN
    IF i = 0 \/ j = 0 THEN None
    ELSE Some([start |-> i, end |-> j,
               group1 |-> RStrip(LStrip(SubSeq(r, i + 1, j - 1)))])

\* MARKER_RE.finditer: the successive non-overlapping matches.
RECURSIVE FindIter(_, _)
FindIter(r, from) ==
    LET m == MarkerSearch(r, from) IN
    IF m = None THEN <<>> ELSE <<m[1]>> \o FindIter(r, m[1].end + 1)

\* A single-file parser that takes the last block instead of the first.
_parse_reply_Last(reply) ==
    LET ms == FindIter(reply, 1) IN
    IF ms # <<>> THEN Strip(ms[Len(ms)].group1) ELSE Strip(reply)

\* _parse_reply, lines 115-117.
_parse_reply(reply) ==
    LET m == MarkerSearch(reply, 1) IN
    IF m # None THEN Strip(m[1].group1) ELSE Strip(reply)

\* _parse_many, lines 119-120.
_parse_many(reply) ==
    LET ms == FindIter(reply, 1) IN
    [k \in 1..Len(ms) |-> Strip(ms[k].group1)]

\* A multi-file call that accepts any block count, and one that falls
\* back to the whole reply as _parse_reply does.
_call_llm_multi_NoCount(reply, n) ==
    [raised |-> FALSE, blocks |-> _parse_many(reply)]
_call_llm_multi_Fallback(reply, n) ==
    LET blocks == _parse_many(reply) IN
    IF Len(blocks) # n
    THEN [raised |-> FALSE, blocks |-> <<Strip(reply)>>]
    ELSE [raised |-> FALSE, blocks |-> blocks]

\* _call_llm_multi on the reply of _post_and_extract, lines 214-218.
_call_llm_multi(reply, n) ==
    LET blocks == _parse_many(reply) IN
    IF Len(blocks) # n
    THEN [raised |-> TRUE, blocks |-> <<>>]
    ELSE [raised |-> FALSE, blocks |-> blocks]

Tokens == {BEGIN_FILE, END_FILE, W, "a", "b"}
Texts(n) == UNION {[1..k -> Tokens] : k \in 0..n}

\* Lines 214-218 for a request of n_files files answered by reply_text.
CallLlmMulti ==
    /\ parsed = None
    /\ parsed' = Some(_call_llm_multi(reply_text, n_files))
    /\ UNCHANGED <<reply_text, n_files, parsed_one>>

\* _call_llm on the reply of _post_and_extract, line 209: a single-file
\* request answered by reply_text.
CallLlm ==
    /\ parsed_one = None
    /\ parsed_one' = Some(_parse_reply(reply_text))
    /\ UNCHANGED <<reply_text, n_files, parsed>>

----------------------------------------------------------------------------
(* llm_refactor_tool.py: the chunked rewrite orchestrator *)

Min(a, b) == IF a < b THEN a ELSE b
Max(a, b) == IF a > b THEN a ELSE b

\* max(int(size or 1), 1), lines 149 and 223: None, "" and 0 count as 1.
ClampSize(size) == IF size = None THEN 1 ELSE Max(size[1], 1)

\* A chunker that drops a last chunk shorter than the size.
_iter_chunks_DropTail(items, size) ==
    LET sz == ClampSize(size)
        n == Len(items) IN
    [k \in 1..(n \div sz) |-> SubSeq(items, (k - 1) * sz + 1, k * sz)]

\* _iter_chunks, lines 148-151: consecutive slices of size ClampSize(size).
_iter_chunks(items, size) ==
    LET sz == ClampSize(size)
        n == Len(items) IN
    [k \in 1..((n + sz - 1) \div sz) |->
        SubSeq(items, (k - 1) * sz + 1, Min(k * sz, n))]

Chunks == _iter_chunks(editable_files, Some(ClampSize(chunk_size)))

\* The replies the service can give: k well-formed blocks, block i holding
\* i characters, or text without a complete block.  _post_and_extract
\* returns no empty reply; it raises when the liveness probe fails.
BlockText(i) == <<BEGIN_FILE, W>> \o [x \in 1..i |-> "a"] \o <<W, END_FILE, W>>
RECURSIVE Render(_)
Render(k) == IF k = 0 THEN <<>> ELSE Render(k - 1) \o BlockText(k)
Replies ==
    {Render(k) : k \in 1..MaxBlocks} \cup {<<W, "b", W>>, <<BEGIN_FILE, "b">>}
ClientOutcomes ==
    {[raised |-> TRUE, reply |-> <<>>]} \cup
    {[raised |-> FALSE, reply |-> r] : r \in Replies}

OriginalText == <<"o">>
Paths == 1..MaxEditable
ChunkSizeValues == {None} \cup {Some(n) : n \in 0..MaxChunkSize}

Event(type, chunk, mode, paths, cds, reply, ok, texts, context) ==
    [type |-> type, ci |-> chunk, mode |-> mode, paths |-> paths,
     codes |-> cds, reply |-> reply, ok |-> ok, texts |-> texts,
     context |-> context]

\* return not had_error, line 259.
RwcReturn(err) ==
    /\ rpc' = "done"
    /\ rret' = Some(~err)

\* A flag that a missing file leaves as it was.
MissingFlag_Ignored(flag, present, group) == flag

\* had_error after the loop of lines 230-238 over the chunk.
MissingFlag(flag, present, group) == flag \/ Len(present) < Len(group)


\* The text of a path is its directory part and its name; p.name is the
\* name alone.
PathText(fp) == <<"d/", ToString(fp)>>
PathName(fp) == <<ToString(fp)>>
\* "S" is "[skip missing] ", "X" is "[error reading] ", "F" is "FILE: ",
\* "#" is the code fence, and a newline is the whitespace token.
SKIP == "S"
ERROR == "X"
FILE == "F"
FENCE == "#"

\* The section appended for one path, lines 125-134: fs gives the text of
\* each existing path, unreadable the paths whose read_text raises.
Section(fp, fs, unreadable) ==
    IF fs[fp] = None THEN <<SKIP>> \o PathText(fp) \o <<W>>
    ELSE IF fp \in unreadable
    THEN <<ERROR>> \o PathText(fp) \o <<":", "e", W>>
    ELSE <<FILE>> \o PathName(fp) \o <<W, FENCE, W>> \o fs[fp][1]
           \o <<W, FENCE>>

\* "\n\n".join(chunks), line 135.
RECURSIVE Join(_)
Join(chunks) ==
    IF chunks = <<>> THEN <<>>
    ELSE IF Len(chunks) = 1 THEN chunks[1]
    ELSE chunks[1] \o <<W, W>> \o Join(Tail(chunks))

\* A context that leaves the missing paths out.
_make_ro_context_DropMissing(ro, fs, unreadable) ==
    LET IsThere(fp) == fs[fp] # None
        there == SelectSeq(ro, IsThere) IN
    Strip(Join([k \in 1..Len(there) |-> Section(there[k], fs, unreadable)]))

\* _make_ro_context, lines 122-135.
_make_ro_context(ro, fs, unreadable) ==
    Strip(Join([k \in 1..Len(ro) |-> Section(ro[k], fs, unreadable)]))

\* The read-only lists of a call: none, an editable file, a file that is
\* editable only when every path is, and both.
ReadOnlyFiles == {<<>>, <<1>>, <<MaxEditable>>, <<MaxEditable, 1>>}

\* The file system read by _make_ro_context: the candidate files and the
\* side-channel file.
FileSystem ==
    [fp \in Paths \cup {LAST_OUT} |->
        IF fp = LAST_OUT THEN lastOut ELSE files[fp]]

\* _make_ro_context over the file system as it is now.
CurrentContext == Some(_make_ro_context(read_only_files, FileSystem, {}))

\* A request that is given a context assembled when it is sent.
RequestContext_Rebuilt(assembled, current) == current

\* The context argument of _call_llm and _call_llm_multi, lines 245 and
\* 247: the local ro_context of line 221.
RequestContext(assembled, current) == assembled

\* Line 221: ro_context = _make_ro_context(read_only_files), before the
\* loop over the chunks.  A read-only file that exists may fail to be read.
RwcContext ==
    /\ rpc = "context"
    /\ \E u \in SUBSET {read_only_files[k] : k \in DOMAIN read_only_files} :
         ro_context' = Some(_make_ro_context(read_only_files, FileSystem, u))
    /\ rpc' = "gather"
    /\ UNCHANGED <<files, editable_files, read_only_files, chunk_size, ci,
                   file_paths, codes, new_texts, had_error, rret, examined,
                   events>>

\* Lines 226-241: take the next chunk and read its present files.
RwcGather ==
    /\ rpc = "gather"
    /\ ci <= Len(Chunks)
    /\ LET group == Chunks[ci]
           IsPresent(fp) == files[fp] # None
           present == SelectSeq(group, IsPresent) IN
       /\ had_error' = MissingFlag(had_error, present, group)
       /\ examined' = examined \o group
       /\ file_paths' = present
       /\ codes' = [k \in 1..Len(present) |-> files[present[k]][1]]
       /\ IF present = <<>>
          THEN ci' = ci + 1 /\ rpc' = "gather"
          ELSE ci' = ci /\ rpc' = "call"
    /\ UNCHANGED <<files, editable_files, read_only_files, ro_context,
                   chunk_size, new_texts, rret, events>>

\* Line 259 once the chunks are exhausted.
RwcLoopEnd ==
    /\ rpc = "gather"
    /\ ci > Len(Chunks)
    /\ RwcReturn(had_error)
    /\ UNCHANGED <<files, editable_files, read_only_files, ro_context,
                   chunk_size, ci, file_paths, codes,
                   new_texts, had_error, examined, events>>

\* A dispatch that goes by the size of the chunk, missing files included.
SingleFile_ByChunk(present, group) == Len(group) = 1

\* if len(file_paths) == 1, line 244: the files left after the missing
\* ones are removed decide.
SingleFile(present, group) == Len(present) = 1

\* Lines 243-251: one request for the chunk, single-file or multi-file.
\* breaks: the except branch ends the loop (break, line 251).
RwcCallBody(breaks) ==
    /\ rpc = "call"
    /\ \E o \in ClientOutcomes :
         LET single == SingleFile(file_paths, Chunks[ci])
             res == IF o.raised THEN [raised |-> TRUE, blocks |-> <<>>]
                    ELSE IF single
                    THEN [raised |-> FALSE, blocks |-> <<_parse_reply(o.reply)>>]
                    ELSE _call_llm_multi(o.reply, Len(file_paths)) IN
         /\ events' = Append(events,
                Event("request", ci, IF single THEN "single" ELSE "multi",
                      file_paths, codes,
                      IF o.raised THEN None ELSE Some(o.reply),
                      ~res.raised, res.blocks,
                      RequestContext(ro_context, CurrentContext)))
         /\ IF res.raised
            THEN /\ had_error' = TRUE
                 /\ UNCHANGED new_texts
                 /\ IF breaks
                    THEN RwcReturn(TRUE) /\ ci' = ci
                    ELSE ci' = ci + 1 /\ rpc' = "gather" /\ UNCHANGED rret
            ELSE /\ new_texts' = res.blocks
                 /\ rpc' = "write"
                 /\ UNCHANGED <<had_error, rret, ci>>
    /\ UNCHANGED <<files, editable_files, read_only_files, ro_context,
                   chunk_size, file_paths, codes,
                   examined>>

\* An except branch that goes on with the next chunk.
RwcCall_Continue == RwcCallBody(FALSE)

RwcCall == RwcCallBody(TRUE)

\* A write loop that hands the blocks out in reverse order.
ZipWrite_Reversed(fs, paths, texts) ==
    LET n == Min(Len(paths), Len(texts)) IN
    [fp \in DOMAIN fs |->
        IF \E k \in 1..n : paths[k] = fp
        THEN Some(texts[n + 1 - (CHOOSE k \in 1..n : paths[k] = fp)])
        ELSE fs[fp]]

\* The file system after the loop of lines 253-255 over
\* zip(file_paths, new_texts): the k-th path receives the k-th text, a path
\* listed twice keeps the later one, every other path is left alone.
ZipWrite(fs, paths, texts) ==
    LET n == Min(Len(paths), Len(texts))
        written == {paths[k] : k \in 1..n}
        LastIndex(fp) ==
            CHOOSE k \in 1..n :
                /\ paths[k] = fp
                /\ \A j \in k + 1..n : paths[j] # fp IN
    [fp \in DOMAIN fs |->
        IF fp \in written THEN Some(texts[LastIndex(fp)]) ELSE fs[fp]]

\* Lines 253-258: write zip(file_paths, new_texts), then test had_error.
\* breaks: had_error ends the loop after the writes (lines 257-258).
RwcWriteBody(breaks) ==
    /\ rpc = "write"
    /\ LET n == Min(Len(file_paths), Len(new_texts)) IN
       /\ files' = ZipWrite(files, file_paths, new_texts)
       /\ events' = events \o
              [k \in 1..n |->
                  Event("write", ci, "", <<file_paths[k]>>, <<>>, None, TRUE,
                        <<new_texts[k]>>, <<>>)]
    /\ had_error' = had_error
    /\ IF had_error /\ breaks
       THEN RwcReturn(had_error) /\ ci' = ci
       ELSE ci' = ci + 1 /\ rpc' = "gather" /\ UNCHANGED rret
    /\ UNCHANGED <<editable_files, read_only_files, ro_context, chunk_size,
                   file_paths, codes, new_texts, examined>>

\* A write loop that is not followed by the had_error test.
RwcWrite_NoBreak == RwcWriteBody(FALSE)

RwcWrite == RwcWriteBody(TRUE)

----------------------------------------------------------------------------
(* The repair loop with refactor_with_context as its refactor_fn *)

\* post_cmd_tool.py lines 69-81, entering refactor_with_context (line
\* 220): editable_files and read_only_files are the arguments of line 71
\* and 72; chunk_size stands for llm.get("chunk_size", "").  The requests
\* and writes recorded are those of the call under way.
RepairCall ==
    /\ pc = "call"
    /\ pc' = "in_call"
    /\ editable_files' = llm[1].editable_expanded
    /\ read_only_files' = ro_plus
    /\ ro_context' = None
    /\ rpc' = "context"
    /\ ci' = 1
    /\ file_paths' = <<>>
    /\ codes' = <<>>
    /\ new_texts' = <<>>
    /\ had_error' = FALSE
    /\ rret' = None
    /\ examined' = <<>>
    /\ events' = <<>>
    /\ UNCHANGED <<files, chunk_size>>
    /\ UNCHANGED <<command, retries, llm, refactor_callable, rc, out, attempts,
                   ro_plus, lastOut, lastWrite, postLog, execs, spawned, procs,
                   refactorCalls, ret, exitPath>>

\* post_cmd_tool.py lines 82-87: the value refactor_with_context returned
\* (line 259) is tested; False ends the loop, True leads to the re-run.
\* rollback: the files are put back as they were when the call fails.
RepairReturnBody(rollback) ==
    /\ pc = "in_call"
    /\ rpc = "done"
    /\ LET res == IF rret[1] THEN "true" ELSE "false" IN
       /\ refactorCalls' =
             Append(refactorCalls,
                    [editable_files |-> editable_files,
                     read_only_files |-> read_only_files,
                     side_channel |-> lastOut,
                     result |-> res])
       /\ IF RefactorAborts(res)
          THEN Return(rc, "llm_false")
          ELSE pc' = "rerun" /\ UNCHANGED <<ret, exitPath>>
    /\ UNCHANGED <<command, retries, llm, refactor_callable, rc, out, attempts,
                   ro_plus, lastOut, lastWrite, postLog, execs, spawned, procs>>
    /\ files' = IF rollback /\ ~rret[1]
                THEN [fp \in Paths |-> Some(OriginalText)]
                ELSE files
    /\ UNCHANGED <<editable_files, read_only_files, ro_context, chunk_size,
                   rpc, ci, file_paths, codes, new_texts, had_error, rret,
                   examined, events>>

\* A return that undoes the writes of a failed call.
RepairReturn_Rollback == RepairReturnBody(TRUE)

RepairReturn == RepairReturnBody(FALSE)


----------------------------------------------------------------------------
(* llm_refactor_tool.py: the LLM client _post_and_extract *)

\* A dict is a function on its keys.  A value is a string: NONE is None,
\* JSON_OBJECT the dict {"type": "json_object"}, JSON_SCHEMA a
\* response_format dict of another type.
NONE == "None"
JSON_OBJECT == "json_object"
JSON_SCHEMA == "json_schema"
Reserved == {"model", "messages"}
DictPop(d, key) == [k \in DOMAIN d \ {key} |-> d[k]]
DictSet(d, key, v) ==
    [k \in DOMAIN d \cup {key} |-> IF k = key THEN v ELSE d[k]]

\* The payload of _build_request and _build_request_multi, lines 84-88 and
\* 106-112: the model and the messages, nothing else.
BuiltPayload == [k \in Reserved |-> IF k = "model" THEN "m0" ELSE "msgs0"]
\* The payload argument of _post_and_extract.
Payloads ==
    {BuiltPayload} \cup
    {DictSet(BuiltPayload, "response_format", v) :
        v \in {JSON_OBJECT, JSON_SCHEMA}}

\* cfg["params"]: any subset of these keys, each with one of its values.
ParamKeys == {"model", "messages", "temperature", "response_format"}
ParamChoices(k) ==
    CASE k = "model" -> {"m1"}
      [] k = "messages" -> {"msgs1"}
      [] k = "temperature" -> {"0.2", NONE}
      [] k = "response_format" -> {JSON_OBJECT, JSON_SCHEMA, NONE}
ParamValues == UNION {ParamChoices(k) : k \in ParamKeys}
ParamsDicts ==
    UNION {{f \in [S -> ParamValues] : \A k \in S : f[k] \in ParamChoices(k)} :
             S \in SUBSET ParamKeys}
Configs ==
    [force_json_mode : BOOLEAN, log : BOOLEAN, params : ParamsDicts]

\* Lines 167-170: without force_json_mode a response_format of type
\* json_object is popped from the payload.
StripJsonMode(c, p) ==
    IF /\ ~c.force_json_mode
       /\ "response_format" \in DOMAIN p
       /\ p["response_format"] = JSON_OBJECT
    THEN DictPop(p, "response_format")
    ELSE p

\* A merge that lets params overwrite the reserved keys.
MergeParams_Clobber(p, params) ==
    LET taken == {k \in DOMAIN params : params[k] # NONE} IN
    [k \in DOMAIN p \cup taken |-> IF k \in taken THEN params[k] ELSE p[k]]

\* Lines 171-175: every params item whose key is not reserved and whose
\* value is not None is stored in the payload.
MergeParams(p, params) ==
    LET taken == {k \in DOMAIN params : k \notin Reserved /\ params[k] # NONE}
    IN [k \in DOMAIN p \cup taken |-> IF k \in taken THEN params[k] ELSE p[k]]

\* The probe GET /models, lines 158-164: requests.get may raise, and
\* raise_for_status raises on an error status.
ProbeOutcomes == {"ok", "conn_error", "http_error"}
\* A probe whose failure is ignored.
ProbeRaises_Never(o) == FALSE
\* except Exception: raise RuntimeError, lines 163-164.
ProbeRaises(o) == o # "ok"

\* What one requests.post brings back: exc is a RequestException raised by
\* the call, ok is r.ok, json tells whether r.json() decodes, top is the
\* shape of the decoded value, choices of data["choices"], first of
\* choices[0], message of its "message", content is message["content"]
\* (None, or the text).
Resp(exc, ok, json, top, choices, first, message, content) ==
    [exc |-> exc, ok |-> ok, json |-> json, top |-> top, choices |-> choices,
     first |-> first, message |-> message, content |-> content]
Responses ==
    {Resp(TRUE, FALSE, FALSE, "other", "absent", "other", "absent", None),
     Resp(FALSE, FALSE, TRUE, "object", "list", "object", "object", Some(<<"a">>)),
     Resp(FALSE, TRUE, FALSE, "other", "absent", "other", "absent", None),
     Resp(FALSE, TRUE, TRUE, "other", "absent", "other", "absent", None),
     Resp(FALSE, TRUE, TRUE, "object", "absent", "other", "absent", None),
     Resp(FALSE, TRUE, TRUE, "object", "empty", "other", "absent", None),
     Resp(FALSE, TRUE, TRUE, "object", "notlist", "other", "absent", None),
     Resp(FALSE, TRUE, TRUE, "object", "list", "other", "absent", None),
     Resp(FALSE, TRUE, TRUE, "object", "list", "object", "absent", None),
     Resp(FALSE, TRUE, TRUE, "object", "list", "object", "other", None),
     Resp(FALSE, TRUE, TRUE, "object", "list", "object", "object", None),
     Resp(FALSE, TRUE, TRUE, "object", "list", "object", "object", Some(<<>>)),
     Resp(FALSE, TRUE, TRUE, "object", "list", "object", "object", Some(<<"a">>)),
     Resp(FALSE, TRUE, TRUE, "object", "list", "object", "object", Some(<<W, "b", W>>))}
\* The answers of a service that works: HTTP-ok, JSON, and a non-empty
\* choices[0].message.content.
IsValid(r) ==
    /\ ~r.exc /\ r.ok /\ r.json /\ r.top = "object" /\ r.choices = "list"
    /\ r.first = "object" /\ r.message = "object"
    /\ r.content \notin {None, Some(<<>>)}
ValidResponses == {r \in Responses : IsValid(r)}

Retry == [kind |-> "retry", value |-> NONE]
Raise(e) == [kind |-> "raise", value |-> e]
Reply(c) == [kind |-> "return", value |-> c]

\* An extraction that does not look at r.ok.
Extract_NoOkCheck(r) ==
    IF r.exc THEN Retry
    ELSE IF ~r.json THEN Retry
    ELSE IF r.top # "object" THEN Raise("AttributeError")
    ELSE IF r.choices # "list" THEN Retry
    ELSE IF r.first # "object" THEN Raise("AttributeError")
    ELSE IF r.message = "other" THEN Raise("AttributeError")
    ELSE IF r.message = "absent" \/ r.content \in {None, Some(<<>>)} THEN Retry
    ELSE Reply(r.content[1])

\* One pass of the try block, lines 180-200, with the except clause of
\* line 202: RequestException, JSONDecodeError and RuntimeError lead to a
\* retry; the AttributeError of .get on a value that is not a dict (line
\* 189 on data, 192 on choices[0], 193 on msg) is not caught.
Extract(r) ==
    IF r.exc THEN Retry
    ELSE IF ~r.ok THEN Retry
    ELSE IF ~r.json THEN Retry
    ELSE IF r.top # "object" THEN Raise("AttributeError")
    ELSE IF r.choices # "list" THEN Retry
    ELSE IF r.first # "object" THEN Raise("AttributeError")
    ELSE IF r.message = "other" THEN Raise("AttributeError")
    ELSE IF r.message = "absent" \/ r.content \in {None, Some(<<>>)} THEN Retry
    ELSE Reply(r.content[1])

\* A transcript logger that opens LOG_FILE with mode "w".
_log_conversation_Overwrite(log, name, prompt, reply) ==
    <<[name |-> name, prompt |-> Strip(prompt), reply |-> Strip(reply)]>>

\* _log_conversation, lines 137-146: one record appended to LOG_FILE,
\* holding the prompt and the reply without their surrounding whitespace.
_log_conversation(log, name, prompt, reply) ==
    Append(log, [name |-> name, prompt |-> Strip(prompt), reply |-> Strip(reply)])

\* The arguments log_name and prompt_for_log of _post_and_extract.
LogName == <<"f">>
PromptForLog == <<"p", W>>
\* LOG_FILE when _post_and_extract is called: empty, or holding the
\* record of an earlier exchange.
PriorTranscripts ==
    {<<>>, <<[name |-> <<"g">>, prompt |-> <<"q">>, reply |-> <<"a">>]>>}

\* Lines 158-164.
Probe ==
    /\ cpc = "probe"
    /\ \E o \in ProbeOutcomes :
         /\ probe' = o
         /\ IF ProbeRaises(o)
            THEN cpc' = "raised" /\ cexc' = "RuntimeError"
            ELSE cpc' = "prepare" /\ UNCHANGED cexc
    /\ UNCHANGED <<cfg, payload_arg, payload, posted, n_posts, response,
                   warnings, llm_log, cret>>

\* Lines 166-177.
Prepare ==
    /\ cpc = "prepare"
    /\ payload' = MergeParams(StripJsonMode(cfg, payload), cfg.params)
    /\ cpc' = "post"
    /\ UNCHANGED <<cfg, payload_arg, probe, posted, n_posts, response,
                   warnings, llm_log, cret, cexc>>

\* One iteration of the while True loop, lines 179-204, answered by r.
Post(r) ==
    /\ cpc = "post"
    /\ posted' = posted \cup {payload}
    /\ n_posts' = n_posts + 1
    /\ response' = Some(r)
    /\ LET e == Extract(r) IN
       CASE e.kind = "return" ->
              /\ llm_log' = IF cfg.log
                            THEN _log_conversation(llm_log, LogName, PromptForLog,
                                                   e.value)
                            ELSE llm_log
              /\ cret' = Some(e.value)
              /\ cpc' = "returned"
              /\ UNCHANGED <<warnings, cexc>>
         [] e.kind = "retry" ->
              /\ warnings' = warnings + 1
              /\ UNCHANGED <<cpc, llm_log, cret, cexc>>
         [] e.kind = "raise" ->
              /\ cexc' = e.value
              /\ cpc' = "raised"
              /\ UNCHANGED <<warnings, llm_log, cret>>
    /\ UNCHANGED <<cfg, payload_arg, payload, probe>>

\* The service answers the POST validly.
PostAnswered == \E r \in ValidResponses : Post(r)
\* The POST fails, or is answered by something else than a valid answer.
PostFailed ==
    /\ n_posts < MaxPosts
    /\ \E r \in Responses \ ValidResponses : Post(r)

----------------------------------------------------------------------------
(* llm_refactor_tool.py: calls of _make_ro_context *)

FileStates == {None, Some(<<"a">>), Some(<<W, "b">>)}
RoLists == UNION {[1..n -> Paths] : n \in 0..MaxRoFiles}

\* One call of _make_ro_context.
MakeRoContext ==
    /\ ctx_out = None
    /\ ctx_out' = Some(_make_ro_context(ctx_files, ctx_fs, ctx_unreadable))
    /\ UNCHANGED <<ctx_files, ctx_fs, ctx_unreadable>>

----------------------------------------------------------------------------
(* llm_refactor_tool.py: the chunker _iter_chunks on its own *)

ItemLists == UNION {[1..n -> {"A", "B"}] : n \in 0..MaxItems}
\* The size argument: None (also the empty string), or an integer, values
\* below 1 included.
SizeValues == {None} \cup {Some(n) : n \in -1..MaxChunkSize + 1}

\* list(_iter_chunks(items, size)).
IterChunks ==
    /\ chk_out = None
    /\ chk_out' = Some(_iter_chunks(chk_items, chk_size))
    /\ UNCHANGED <<chk_items, chk_size>>

----------------------------------------------------------------------------
(* main.py: the pipeline *)

\* sys.exit(status), or the end of main with status 0.
Exit(status) ==
    /\ mpc' = "exited"
    /\ exit_status' = Some(status)

\* Lines 38-48: write CMakeLists.txt unless the step is skipped.  The
\* file is written, or the writer raises: nothing catches the exception
\* and the interpreter exits with status 1.
MainCMakeLists ==
    /\ mpc = "cmakelists"
    /\ IF "cmakelists" \in skip
       THEN mpc' = "presets" /\ UNCHANGED <<ran, exit_status>>
       ELSE \E w \in {"ok", "raise"} :
              /\ ran' = Append(ran, "cmakelists")
              /\ IF w = "raise" THEN Exit(1)
                 ELSE mpc' = "presets" /\ UNCHANGED exit_status
    /\ UNCHANGED <<skip, ed_abs, post_cmd, llm_step, post_calls, post_spawned>>

\* Lines 50-55: write the presets file unless the step is skipped.
MainPresets ==
    /\ mpc = "presets"
    /\ IF "presets" \in skip
       THEN mpc' = "llm" /\ UNCHANGED <<ran, exit_status>>
       ELSE \E w \in {"ok", "raise"} :
              /\ ran' = Append(ran, "presets")
              /\ IF w = "raise" THEN Exit(1)
                 ELSE mpc' = "llm" /\ UNCHANGED exit_status
    /\ UNCHANGED <<skip, ed_abs, post_cmd, llm_step, post_calls, post_spawned>>

\* Only an exception ends the pipeline; a False result is ignored.
LlmAborts_OnlyRaise(res) == res = "raise"

\* Lines 74-80: if not ok, and except Exception, both reach sys.exit(1).
LlmAborts(res) == res \in {"false", "raise"}

\* Lines 57-82: the LLM step.
MainLlm ==
    /\ mpc = "llm"
    /\ IF "llm" \in skip \/ ed_abs = <<>>
       THEN /\ llm_step' = "skipped"
            /\ mpc' = "post"
            /\ UNCHANGED <<ran, exit_status>>
       ELSE \E res \in RefactorOutcomes :
              /\ ran' = Append(ran, "llm")
              /\ llm_step' = res
              /\ IF LlmAborts(res) THEN Exit(1)
                 ELSE mpc' = "post" /\ UNCHANGED exit_status
    /\ UNCHANGED <<skip, ed_abs, post_cmd, post_calls, post_spawned>>

\* Lines 84-91: the post command, then "Done." and the end of main.
MainPost ==
    /\ mpc = "post"
    /\ IF "post" \in skip \/ post_cmd = <<>>
       THEN UNCHANGED <<ran, post_calls, post_spawned>>
       ELSE \E p \in ProcessResults :
              /\ ran' = Append(ran, "post")
              /\ post_calls' = post_calls + 1
              /\ post_spawned' =
                    post_spawned + run_post_command(post_cmd, p).spawned
    /\ Exit(0)
    /\ UNCHANGED <<skip, ed_abs, post_cmd, llm_step>>

----------------------------------------------------------------------------
(* cmake_presets.py: _prune_presets *)

\* The value of "inherits": absent, a string (a text in which ";"
\* separates the names), or a list of names.
InhNone == [kind |-> "none", text |-> <<>>, names |-> <<>>]
InhStr(text) == [kind |-> "str", text |-> text, names |-> <<>>]
InhList(names) == [kind |-> "list", text |-> <<>>, names |-> names]
ConfigurePreset(name, inherits) == [name |-> name, inherits |-> inherits]
\* A build or test preset.
Preset(name, configurePreset) ==
    [name |-> name, configurePreset |-> configurePreset]
Step(type, name) == [type |-> type, name |-> name]
Workflow(name, steps) == [name |-> name, steps |-> steps]
Doc(c, b, t, w) ==
    [configurePresets |-> c, buildPresets |-> b, testPresets |-> t,
     workflowPresets |-> w]

\* _master_template, lines 7-148: the names and the references of the
\* presets; the other keys play no part in the pruning.
MasterConfigure ==
    <<ConfigurePreset("base", InhNone),
      ConfigurePreset("linux-base", InhStr(<<"base">>)),
      ConfigurePreset("ninja-gcc-debug", InhStr(<<"linux-base">>)),
      ConfigurePreset("ninja-gcc-release", InhStr(<<"linux-base">>)),
      ConfigurePreset("ninja-clang-debug", InhStr(<<"linux-base">>)),
      ConfigurePreset("ninja-clang-release", InhStr(<<"linux-base">>)),
      ConfigurePreset("win-base", InhStr(<<"base">>)),
      ConfigurePreset("ninja-clangcl-debug", InhStr(<<"win-base">>)),
      ConfigurePreset("ninja-clangcl-release",
                      InhStr(<<"ninja-clangcl-debug">>)),
      ConfigurePreset("vs-clangcl-debug", InhNone),
      ConfigurePreset("vs-msvc-debug", InhNone)>>
\* Lines 90-112: one build and one test preset for each configure preset
\* that is not hidden, of the same name.
MasterBuildTest ==
    <<Preset("ninja-gcc-debug", "ninja-gcc-debug"),
      Preset("ninja-gcc-release", "ninja-gcc-release"),
      Preset("ninja-clang-debug", "ninja-clang-debug"),
      Preset("ninja-clang-release", "ninja-clang-release"),
      Preset("ninja-clangcl-debug", "ninja-clangcl-debug"),
      Preset("ninja-clangcl-release", "ninja-clangcl-release"),
      Preset("vs-clangcl-debug", "vs-clangcl-debug"),
      Preset("vs-msvc-debug", "vs-msvc-debug")>>
\* The steps of the workflows of lines 114-147.
CiSteps(name) ==
    <<Step("configure", name), Step("build", name), Step("test", name)>>
MasterWorkflows ==
    <<Workflow("ci-win-debug", CiSteps("ninja-clangcl-debug")),
      Workflow("ci-linux-gcc-debug", CiSteps("ninja-gcc-debug")),
      Workflow("ci-linux-clang-debug", CiSteps("ninja-clang-debug")),
      Workflow("ci-vs-msvc-debug", CiSteps("vs-msvc-debug"))>>
MasterTemplate ==
    Doc(MasterConfigure, MasterBuildTest, MasterBuildTest, MasterWorkflows)

\* A document that is not the template: a string that names two parents,
\* a list of parents, a parent that does not exist, presets that inherit
\* from each other, a workflow without steps.
OtherDoc ==
    Doc(<<ConfigurePreset("base", InhNone),
          ConfigurePreset("linux-base",
                          InhStr(<<"base", ";", W, "win-base">>)),
          ConfigurePreset("win-base", InhList(<<"linux-base", "nope">>))>>,
        <<Preset("linux-base", "linux-base")>>,
        <<Preset("win-base", "win-base")>>,
        <<Workflow("empty", <<>>),
          Workflow("ci-base", <<Step("configure", "base")>>)>>)

PresetNames(ps) == {ps[k].name : k \in 1..Len(ps)}
\* The names a selection is made of: those of the template, and one that
\* no preset has.
Selections ==
    UNION {[1..n -> PresetNames(MasterConfigure) \cup {"nope"}] :
              n \in 0..MaxSelected}

\* inherits.split(";"), line 172.
RECURSIVE Split(_)
Split(text) ==
    LET i == FindToken(text, ";", 1) IN
    IF i = 0 THEN <<text>>
    ELSE <<SubSeq(text, 1, i - 1)>> \o Split(SubSeq(text, i + 1, Len(text)))

\* The parents mark_chain visits, lines 170-176.  parent.strip(), line
\* 173, as a name: a name is one token; any other text is the name of no
\* preset.
Parents(inherits) ==
    CASE inherits.kind = "str" ->
            LET parts == Split(inherits.text)
                PartName(part) ==
                    LET t == Strip(part) IN
                    IF Len(t) = 1 THEN t[1] ELSE "?" IN
            [k \in 1..Len(parts) |-> PartName(parts[k])]
      [] inherits.kind = "list" -> inherits.names
      [] OTHER -> <<>>

\* name_to_cfg, line 163: of two presets of one name the later one stays.
name_to_cfg(cfgs) ==
    [n \in PresetNames(cfgs) |->
        cfgs[CHOOSE k \in 1..Len(cfgs) :
                /\ cfgs[k].name = n
                /\ \A j \in k + 1..Len(cfgs) : cfgs[j].name # n]]

\* mark_chain, lines 166-176, returning keep_cfg after the call; MarkEach
\* is a loop that calls it on each name of a list.
RECURSIVE mark_chain(_, _, _)
RECURSIVE MarkEach(_, _, _)
mark_chain(name, keep_cfg, ntc) ==
    IF name \in keep_cfg \/ name \notin DOMAIN ntc THEN keep_cfg
    ELSE MarkEach(Parents(ntc[name].inherits), keep_cfg \cup {name}, ntc)
MarkEach(names, keep_cfg, ntc) ==
    IF names = <<>> THEN keep_cfg
    ELSE MarkEach(Tail(names), mark_chain(Head(names), keep_cfg, ntc), ntc)

\* _prune_presets, lines 150-208.  The loop of line 178 runs over a set:
\* the order of its elements does not change keep_cfg.
_prune_presets(doc, selected) ==
    IF selected = <<>> THEN doc
    ELSE
      LET sel == {selected[k] : k \in 1..Len(selected)}
          keep_cfg ==
              MarkEach(selected, {}, name_to_cfg(doc.configurePresets))
          KeepCfg(p) == p.name \in keep_cfg
          InSel(p) == p.configurePreset \in sel
          builds == SelectSeq(doc.buildPresets, InSel)
          tests == SelectSeq(doc.testPresets, InSel)
          valid_step_names ==
              PresetNames(builds) \cup PresetNames(tests) \cup keep_cfg
          KeepWf(wf) ==
              /\ wf.steps # <<>>
              /\ \A k \in 1..Len(wf.steps) :
                    wf.steps[k].name \in valid_step_names IN
      Doc(SelectSeq(doc.configurePresets, KeepCfg), builds, tests,
          SelectSeq(doc.workflowPresets, KeepWf))

\* One call of _prune_presets; the document handed in is the one changed
\* and returned.
PrunePresets ==
    /\ pr_ret = None
    /\ pr_ret' = Some(_prune_presets(pr_doc, pr_selected))
    /\ pr_doc' = _prune_presets(pr_doc, pr_selected)
    /\ UNCHANGED <<pr_doc0, pr_selected>>

----------------------------------------------------------------------------
(* Specifications: each entry point runs alone, the rest stays idle *)

PresetIdle ==
    /\ pr_doc = Doc(<<>>, <<>>, <<>>, <<>>)
    /\ pr_doc0 = Doc(<<>>, <<>>, <<>>, <<>>)
    /\ pr_selected = <<>>
    /\ pr_ret = None

MainIdle ==
    /\ mpc = "idle"
    /\ skip = {}
    /\ ed_abs = <<>>
    /\ post_cmd = <<>>
    /\ llm_step = "none"
    /\ post_calls = 0
    /\ post_spawned = 0
    /\ exit_status = None
    /\ ran = <<>>

LoopIdle ==
    /\ pc = "idle"
    /\ command = <<>>
    /\ retries = None
    /\ llm = None
    /\ refactor_callable = FALSE
    /\ rc = 0
    /\ out = <<>>
    /\ attempts = 0
    /\ ro_plus = <<>>
    /\ lastOut = None
    /\ lastWrite = "none"
    /\ postLog = <<>>
    /\ execs = <<>>
    /\ spawned = 0
    /\ procs = <<>>
    /\ refactorCalls = <<>>
    /\ ret = None
    /\ exitPath = "none"

CodecIdle ==
    /\ reply_text = <<>>
    /\ n_files = 0
    /\ parsed = None
    /\ parsed_one = None

RwcIdle ==
    /\ files = [fp \in Paths |-> None]
    /\ editable_files = <<>>
    /\ read_only_files = <<>>
    /\ ro_context = None
    /\ chunk_size = None
    /\ rpc = "idle"
    /\ ci = 0
    /\ file_paths = <<>>
    /\ codes = <<>>
    /\ new_texts = <<>>
    /\ had_error = FALSE
    /\ rret = None
    /\ examined = <<>>
    /\ events = <<>>

ClientIdle ==
    /\ cfg = [force_json_mode |-> FALSE, log |-> FALSE, params |-> <<>>]
    /\ payload_arg = <<>>
    /\ payload = <<>>
    /\ cpc = "idle"
    /\ probe = "none"
    /\ posted = {}
    /\ n_posts = 0
    /\ response = None
    /\ warnings = 0
    /\ llm_log = <<>>
    /\ cret = None
    /\ cexc = "none"

ChkIdle ==
    /\ chk_items = <<>>
    /\ chk_size = None
    /\ chk_out = None

CtxIdle ==
    /\ ctx_files = <<>>
    /\ ctx_fs = [fp \in Paths |-> None]
    /\ ctx_unreadable = {}
    /\ ctx_out = None

CodecInit ==
    /\ PresetIdle
    /\ MainIdle
    /\ LoopIdle
    /\ RwcIdle
    /\ ClientIdle
    /\ CtxIdle
    /\ ChkIdle
    /\ reply_text \in Texts(MaxReplyLen)
    /\ n_files \in 2..MaxFiles
    /\ parsed = None
    /\ parsed_one = None

LoopInit ==
    /\ PresetIdle
    /\ MainIdle
    /\ CodecIdle
    /\ RwcIdle
    /\ ClientIdle
    /\ CtxIdle
    /\ ChkIdle
    /\ pc = "start"
    /\ command \in Commands
    /\ retries \in RetriesValues
    /\ llm \in LlmValues
    /\ refactor_callable \in BOOLEAN
    /\ rc = 0
    /\ out = <<>>
    /\ attempts = 0
    /\ ro_plus = <<>>
    /\ lastOut \in {None, Some(<<"z">>)}
    /\ lastWrite = "none"
    /\ postLog \in PriorLogs
    /\ execs = <<>>
    /\ spawned = 0
    /\ procs = <<>>
    /\ refactorCalls = <<>>
    /\ ret = None
    /\ exitPath = "none"

\* run_post_with_llm_retry handed refactor_with_context, with a command
\* that is not blank and a configuration that allows repair attempts.
RepairInit ==
    /\ PresetIdle
    /\ MainIdle
    /\ CodecIdle
    /\ ClientIdle
    /\ CtxIdle
    /\ ChkIdle
    /\ pc = "start"
    /\ command = <<"m">>
    /\ retries \in {Some(1), Some(2)}
    /\ llm \in {v \in LlmValues : v # None /\ Len(v[1].editable_expanded) = 2}
    /\ refactor_callable = TRUE
    /\ rc = 0
    /\ out = <<>>
    /\ attempts = 0
    /\ ro_plus = <<>>
    /\ lastOut = None
    /\ lastWrite = "none"
    /\ postLog = <<>>
    /\ execs = <<>>
    /\ spawned = 0
    /\ procs = <<>>
    /\ refactorCalls = <<>>
    /\ ret = None
    /\ exitPath = "none"
    /\ files = [fp \in Paths |-> Some(OriginalText)]
    /\ editable_files = <<>>
    /\ read_only_files = <<>>
    /\ ro_context = None
    /\ chunk_size \in {None, Some(2)}
    /\ rpc = "idle"
    /\ ci = 0
    /\ file_paths = <<>>
    /\ codes = <<>>
    /\ new_texts = <<>>
    /\ had_error = FALSE
    /\ rret = None
    /\ examined = <<>>
    /\ events = <<>>

\* A call of refactor_with_context, at line 221.
RwcInit ==
    /\ PresetIdle
    /\ MainIdle
    /\ LoopIdle
    /\ CodecIdle
    /\ ClientIdle
    /\ CtxIdle
    /\ ChkIdle
    /\ files \in [Paths -> {None, Some(OriginalText)}]
    /\ editable_files \in {[k \in 1..n |-> k] : n \in 0..MaxEditable}
    /\ read_only_files \in ReadOnlyFiles
    /\ ro_context = None
    /\ chunk_size \in ChunkSizeValues
    /\ rpc = "context"
    /\ ci = 1
    /\ file_paths = <<>>
    /\ codes = <<>>
    /\ new_texts = <<>>
    /\ had_error = FALSE
    /\ rret = None
    /\ examined = <<>>
    /\ events = <<>>

ClientInit ==
    /\ PresetIdle
    /\ MainIdle
    /\ LoopIdle
    /\ CodecIdle
    /\ RwcIdle
    /\ CtxIdle
    /\ ChkIdle
    /\ cfg \in Configs
    /\ payload_arg \in Payloads
    /\ payload = payload_arg
    /\ cpc = "probe"
    /\ probe = "none"
    /\ posted = {}
    /\ n_posts = 0
    /\ response = None
    /\ warnings = 0
    /\ llm_log \in PriorTranscripts
    /\ cret = None
    /\ cexc = "none"

CtxInit ==
    /\ PresetIdle
    /\ MainIdle
    /\ LoopIdle
    /\ CodecIdle
    /\ RwcIdle
    /\ ClientIdle
    /\ ChkIdle
    /\ ctx_files \in RoLists
    /\ ctx_fs \in [Paths -> FileStates]
    /\ ctx_unreadable \in SUBSET {fp \in Paths : ctx_fs[fp] # None}
    /\ ctx_out = None

ChkInit ==
    /\ PresetIdle
    /\ MainIdle
    /\ LoopIdle
    /\ CodecIdle
    /\ RwcIdle
    /\ ClientIdle
    /\ CtxIdle
    /\ chk_items \in ItemLists
    /\ chk_size \in SizeValues
    /\ chk_out = None

\* main after load_config, line 38.
MainInit ==
    /\ PresetIdle
    /\ LoopIdle
    /\ CodecIdle
    /\ RwcIdle
    /\ ClientIdle
    /\ CtxIdle
    /\ ChkIdle
    /\ mpc = "cmakelists"
    /\ skip \in SUBSET {"cmakelists", "presets", "llm", "post"}
    /\ ed_abs \in EditableLists
    /\ post_cmd \in Commands
    /\ llm_step = "none"
    /\ post_calls = 0
    /\ post_spawned = 0
    /\ exit_status = None
    /\ ran = <<>>

MainNext ==
    \/ MainCMakeLists
         /\ UNCHANGED <<loopVars, codecVars, rwcVars, clientVars, ctxVars, chkVars, presetVars>>
    \/ MainPresets
         /\ UNCHANGED <<loopVars, codecVars, rwcVars, clientVars, ctxVars, chkVars, presetVars>>
    \/ MainLlm
         /\ UNCHANGED <<loopVars, codecVars, rwcVars, clientVars, ctxVars, chkVars, presetVars>>
    \/ MainPost
         /\ UNCHANGED <<loopVars, codecVars, rwcVars, clientVars, ctxVars, chkVars, presetVars>>

\* _prune_presets is called, line 150.
PresetInit ==
    /\ LoopIdle
    /\ CodecIdle
    /\ RwcIdle
    /\ ClientIdle
    /\ CtxIdle
    /\ ChkIdle
    /\ MainIdle
    /\ pr_doc \in {MasterTemplate, OtherDoc}
    /\ pr_doc0 = pr_doc
    /\ pr_selected \in Selections
    /\ pr_ret = None

PresetNext ==
    \/ PrunePresets
         /\ UNCHANGED <<loopVars, codecVars, rwcVars, clientVars, ctxVars, chkVars, mainVars>>

LoopNext ==
    \/ Start /\ UNCHANGED <<codecVars, rwcVars, clientVars, ctxVars, chkVars, mainVars, presetVars>>
    \/ WhileTest /\ UNCHANGED <<codecVars, rwcVars, clientVars, ctxVars, chkVars, mainVars, presetVars>>
    \/ WriteLastOut /\ UNCHANGED <<codecVars, rwcVars, clientVars, ctxVars, chkVars, mainVars, presetVars>>
    \/ CallRefactor /\ UNCHANGED <<codecVars, rwcVars, clientVars, ctxVars, chkVars, mainVars, presetVars>>
    \/ Rerun /\ UNCHANGED <<codecVars, rwcVars, clientVars, ctxVars, chkVars, mainVars, presetVars>>

RepairNext ==
    \/ Start /\ UNCHANGED <<codecVars, rwcVars, clientVars, ctxVars, chkVars, mainVars, presetVars>>
    \/ WhileTest /\ UNCHANGED <<codecVars, rwcVars, clientVars, ctxVars, chkVars, mainVars, presetVars>>
    \/ WriteLastOut /\ UNCHANGED <<codecVars, rwcVars, clientVars, ctxVars, chkVars, mainVars, presetVars>>
    \/ RepairCall /\ UNCHANGED <<codecVars, clientVars, ctxVars, chkVars, mainVars, presetVars>>
    \/ RwcContext /\ UNCHANGED <<loopVars, codecVars, clientVars, ctxVars, chkVars, mainVars, presetVars>>
    \/ RwcGather /\ UNCHANGED <<loopVars, codecVars, clientVars, ctxVars, chkVars, mainVars, presetVars>>
    \/ RwcLoopEnd /\ UNCHANGED <<loopVars, codecVars, clientVars, ctxVars, chkVars, mainVars, presetVars>>
    \/ RwcCall /\ UNCHANGED <<loopVars, codecVars, clientVars, ctxVars, chkVars, mainVars, presetVars>>
    \/ RwcWrite /\ UNCHANGED <<loopVars, codecVars, clientVars, ctxVars, chkVars, mainVars, presetVars>>
    \/ RepairReturn /\ UNCHANGED <<codecVars, clientVars, ctxVars, chkVars, mainVars, presetVars>>
    \/ Rerun /\ UNCHANGED <<codecVars, rwcVars, clientVars, ctxVars, chkVars, mainVars, presetVars>>

CodecNext ==
    \/ CallLlmMulti /\ UNCHANGED <<loopVars, rwcVars, clientVars, ctxVars, chkVars, mainVars, presetVars>>
    \/ CallLlm /\ UNCHANGED <<loopVars, rwcVars, clientVars, ctxVars, chkVars, mainVars, presetVars>>

RwcNext ==
    \/ RwcContext /\ UNCHANGED <<loopVars, codecVars, clientVars, ctxVars, chkVars, mainVars, presetVars>>
    \/ RwcGather /\ UNCHANGED <<loopVars, codecVars, clientVars, ctxVars, chkVars, mainVars, presetVars>>
    \/ RwcLoopEnd /\ UNCHANGED <<loopVars, codecVars, clientVars, ctxVars, chkVars, mainVars, presetVars>>
    \/ RwcCall /\ UNCHANGED <<loopVars, codecVars, clientVars, ctxVars, chkVars, mainVars, presetVars>>
    \/ RwcWrite /\ UNCHANGED <<loopVars, codecVars, clientVars, ctxVars, chkVars, mainVars, presetVars>>

ClientNext ==
    \/ Probe /\ UNCHANGED <<loopVars, codecVars, rwcVars, ctxVars, chkVars, mainVars, presetVars>>
    \/ Prepare /\ UNCHANGED <<loopVars, codecVars, rwcVars, ctxVars, chkVars, mainVars, presetVars>>
    \/ PostAnswered /\ UNCHANGED <<loopVars, codecVars, rwcVars, ctxVars, chkVars, mainVars, presetVars>>
    \/ PostFailed /\ UNCHANGED <<loopVars, codecVars, rwcVars, ctxVars, chkVars, mainVars, presetVars>>

CtxNext ==
    \/ MakeRoContext
         /\ UNCHANGED <<loopVars, codecVars, rwcVars, clientVars, chkVars, mainVars, presetVars>>

ChkNext ==
    \/ IterChunks
         /\ UNCHANGED <<loopVars, codecVars, rwcVars, clientVars, ctxVars, mainVars, presetVars>>

SpecLoop == LoopInit /\ [][LoopNext]_vars
\* Every command execution and every refactor_fn call returns: no step of
\* the loop is put off forever.
SpecLoopFair ==
    /\ LoopInit
    /\ [][LoopNext]_vars
    /\ WF_loopVars(Start \/ WhileTest \/ WriteLastOut \/ CallRefactor \/ Rerun)
SpecCodec == CodecInit /\ [][CodecNext]_vars
SpecRefactor == RwcInit /\ [][RwcNext]_vars
SpecRepair == RepairInit /\ [][RepairNext]_vars
SpecClient == ClientInit /\ [][ClientNext]_vars
SpecContext == CtxInit /\ [][CtxNext]_vars
SpecChunks == ChkInit /\ [][ChkNext]_vars
SpecMain == MainInit /\ [][MainNext]_vars
SpecPresets == PresetInit /\ [][PresetNext]_vars
\* The service eventually answers validly: a valid answer to the POST is
\* not withheld forever while the client keeps asking.
SpecClientFair ==
    ClientInit /\ [][ClientNext]_vars /\ WF_clientVars(PostAnswered)

----------------------------------------------------------------------------
(* Properties of the repair loop *)

Done == pc = "done"
NCalls == Len(refactorCalls)
NExecs == Len(execs)
LastExec == execs[NExecs]
\* The configured retry budget: None and negative values grant nothing.
Budget == IF retries = None \/ retries[1] < 0 THEN 0 ELSE retries[1]
\* An llm configuration with a non-empty editable set.
EditableConfigured == llm # None /\ llm[1].editable_expanded # <<>>
AllExecsFail == \A k \in 1..NExecs : execs[k].rc # 0
AllCallsTrue == \A k \in 1..NCalls : refactorCalls[k].result = "true"

\* C1: refactor_fn is invoked only directly after a command execution that
\* exited non-zero (the k-th invocation follows the k-th execution, with
\* no execution in between); if the first execution exits 0 there is no
\* invocation, no side-channel write, and the loop returns 0 after exactly
\* one execution.
C1_InvokedOnlyAfterFailure ==
    /\ NCalls <= NExecs /\ NExecs <= NCalls + 1
    /\ \A k \in 1..NCalls : execs[k].rc # 0
    /\ (NExecs >= 1 /\ execs[1].rc = 0) =>
          /\ NCalls = 0
          /\ lastWrite = "none"
          /\ NExecs = 1
          /\ pc \in {"while", "done"}
          /\ Done => ret = Some(0)

C1_Witness ==
    /\ Done /\ can_retry /\ spawned = 1
    /\ execs[1].rc = 0 /\ ret = Some(0) /\ exitPath = "loop_end"

\* C2: for every retry budget R >= 0, one call invokes refactor_fn at most
\* R times and executes the command at most R+1 times; the attempts
\* counter never exceeds R.
C2_BudgetNeverExceeded ==
    /\ NCalls <= Budget
    /\ NExecs <= Budget + 1
    /\ attempts <= Budget

C2_Witness ==
    Done /\ Budget >= 2 /\ NCalls = Budget /\ NExecs = Budget + 1

\* The premises C3 states: every execution fails, every orchestrator
\* invocation reports success, an editable set and an llm configuration are
\* present and retries = N >= 1 (refactor_fn being the orchestrator).
C3_Premises ==
    /\ Done /\ AllExecsFail /\ AllCallsTrue
    /\ EditableConfigured /\ refactor_callable
    /\ retries # None /\ retries[1] >= 1

C3_Conclusion ==
    /\ NCalls = retries[1]
    /\ NExecs = retries[1] + 1
    /\ ret = Some(LastExec.rc)
    /\ exitPath = "loop_end"

C4_AbortOnRefactorFailure ==
    \A k \in 1..NCalls :
        refactorCalls[k].result # "true" =>
            /\ Done
            /\ k = NCalls
            /\ NExecs = k
            /\ ret = Some(execs[k].rc)
            /\ exitPath \in {"llm_false", "llm_error"}

C4_Witness ==
    /\ NCalls = 2 /\ refactorCalls[2].result = "false"
    /\ exitPath = "llm_false" /\ ret = Some(2)

\* The case C5 is about: the two latest executions both failed, with
\* different outputs.
C5_TwoFailures(k) ==
    /\ k >= 2 /\ k <= NExecs
    /\ execs[k - 1].rc # 0 /\ execs[k].rc # 0
    /\ execs[k - 1].out # execs[k].out

\* C5 as stated: for every budget >= 1 with an eligible configuration,
\* once two consecutive failing executions with different outputs out0,
\* out1 have run, the side-channel file holds exactly out1.
C5_Original ==
    (Done /\ can_retry /\ C5_TwoFailures(NExecs)) =>
        lastOut = Some(LastExec.out)

\* C5, amended: the file is written at the start of a repair attempt, so
\* once the attempt that follows the failing executions out0, out1 has
\* written the file successfully (which takes a budget >= 2), the file
\* holds exactly out1, not out0 and not out0 followed by out1.
C5_SideChannelIsLatest ==
    (attempts >= 2 /\ lastWrite = "ok" /\ C5_TwoFailures(attempts)) =>
        /\ lastOut = Some(execs[attempts].out)
        /\ lastOut # Some(execs[attempts - 1].out)

C5_Witness ==
    /\ attempts = 2 /\ lastWrite = "ok" /\ C5_TwoFailures(2)
    /\ execs[1].out = <<"x">> /\ execs[2].out = <<"y">>
    /\ lastOut = Some(<<"y">>)

\* C6: at every invocation of refactor_fn the side-channel file holds
\* exactly the output of the execution just before it, that execution
\* exited non-zero, and read_only_files is the configured read-only list
\* followed by the side-channel file as its last entry.
C6_InvocationContext ==
    \A k \in 1..NCalls :
        LET call == refactorCalls[k]
            ro == call.read_only_files IN
        /\ call.side_channel = Some(execs[k].out)
        /\ execs[k].rc # 0
        /\ Len(ro) = Len(llm[1].read_only_expanded) + 1
        /\ SubSeq(ro, 1, Len(ro) - 1) = llm[1].read_only_expanded
        /\ ro[Len(ro)] = LAST_OUT

C6_Witness ==
    /\ NCalls = 2
    /\ llm[1].read_only_expanded = <<1>>
    /\ execs[1].out = <<"x">> /\ execs[2].out = <<"y">>
    /\ refactorCalls[2].side_channel = Some(<<"y">>)
    /\ refactorCalls[2].read_only_files = <<1, LAST_OUT>>

\* The ineligible configurations C7 names.
C7_Ineligible ==
    \/ retries = None
    \/ retries[1] <= 0
    \/ llm = None
    \/ llm[1].editable_expanded = <<>>

\* C7: after a non-zero first exit code, an ineligible configuration makes
\* the loop return that exit code with no side-channel write, no
\* refactor_fn invocation and no second execution.
C7_IneligibleReturnsAtOnce ==
    (NExecs >= 1 /\ execs[1].rc # 0 /\ C7_Ineligible) =>
        /\ Done
        /\ ret = Some(execs[1].rc)
        /\ exitPath = "cannot_retry"
        /\ lastWrite = "none"
        /\ NCalls = 0
        /\ NExecs = 1 /\ spawned = 1

C7_Witness ==
    /\ Done /\ execs[1].rc = 2 /\ ret = Some(2)
    /\ retries = Some(2) /\ refactor_callable
    /\ llm # None /\ llm[1].editable_expanded = <<>>

\* C8: on every return path the value returned is the exit code of the
\* latest command execution; it is 0 exactly when that execution exited 0.
C8_ReturnsLastExitCode ==
    Done =>
        /\ ret = Some(LastExec.rc)
        /\ (ret = Some(0)) <=> (LastExec.rc = 0)
        /\ exitPath \in {"cannot_retry", "write_failed", "llm_false",
                         "llm_error", "loop_end"}

C8_Witness ==
    /\ Done /\ exitPath = "write_failed" /\ NExecs = 2
    /\ execs[1].rc = 1 /\ execs[2].rc = 2 /\ ret = Some(2)

----------------------------------------------------------------------------
(* Properties of the codec and of the orchestrator *)

\* A well-formed block, stated on the text rather than by scanning it: a
\* BEGIN marker starts a block when an END marker follows it and every
\* earlier BEGIN marker is closed by an END marker before it; the block
\* ends at the first END marker after its start.
IsBlockStart(r, i) ==
    /\ r[i] = BEGIN_FILE
    /\ \E j \in i + 1..Len(r) : r[j] = END_FILE
    /\ \A b \in 1..i - 1 :
          r[b] = BEGIN_FILE => \E e \in b + 1..i - 1 : r[e] = END_FILE
BlockStarts(r) == {i \in 1..Len(r) : IsBlockStart(r, i)}
BlockCount(r) == Cardinality(BlockStarts(r))
NthBlockStart(r, k) ==
    CHOOSE i \in BlockStarts(r) :
        Cardinality({x \in BlockStarts(r) : x < i}) = k - 1
BlockEnd(r, i) ==
    CHOOSE j \in i + 1..Len(r) :
        r[j] = END_FILE /\ \A e \in i + 1..j - 1 : r[e] # END_FILE
BlockInner(r, k) ==
    LET i == NthBlockStart(r, k) IN SubSeq(r, i + 1, BlockEnd(r, i) - 1)
AllWhitespace(t) == \A x \in 1..Len(t) : t[x] = W
\* c is the text between the markers without its surrounding whitespace.
IsCapture(inner, c) ==
    /\ c = <<>> \/ (c[1] # W /\ c[Len(c)] # W)
    /\ \E a \in 0..Len(inner) :
          /\ a + Len(c) <= Len(inner)
          /\ SubSeq(inner, a + 1, a + Len(c)) = c
          /\ AllWhitespace(SubSeq(inner, 1, a))
          /\ AllWhitespace(SubSeq(inner, a + Len(c) + 1, Len(inner)))

\* C9: for a multi-file request of N >= 2 files, _call_llm_multi returns
\* exactly the N captured block contents in order of appearance when the
\* reply holds exactly N well-formed blocks, and raises the count-mismatch
\* error when the reply holds fewer (also none) or more; it never falls
\* back to the whole reply.
C9_MultiReplyExactCount ==
    parsed # None =>
        IF BlockCount(reply_text) = n_files
        THEN /\ ~parsed[1].raised
             /\ Len(parsed[1].blocks) = n_files
             /\ \A k \in 1..n_files :
                   IsCapture(BlockInner(reply_text, k), parsed[1].blocks[k])
        ELSE parsed[1].raised /\ parsed[1].blocks = <<>>

C9_Witness ==
    /\ parsed # None /\ n_files = 2
    /\ reply_text = <<BEGIN_FILE, "a", END_FILE, BEGIN_FILE, "b", END_FILE>>
    /\ parsed[1] = [raised |-> FALSE, blocks |-> << <<"a">>, <<"b">> >>]

IsRequest(x) == events[x].type = "request"
IsWrite(x) == events[x].type = "write"
\* A multi-file request whose reply holds a number of blocks other than
\* the number of files sent.
IsMismatch(x) ==
    /\ IsRequest(x) /\ events[x].mode = "multi" /\ events[x].reply # None
    /\ BlockCount(events[x].reply[1]) # Len(events[x].paths)

\* C10: all-or-nothing per chunk.  After a multi-file reply with a block
\* count other than the number of files sent, no file of the chunk is
\* written: each keeps the content read before the request.  A file is
\* written only after the request of its chunk has been answered and the
\* whole reply parsed successfully.
C10_AllOrNothingPerChunk ==
    /\ \A x \in 1..Len(events) :
          IsMismatch(x) =>
              /\ \A k \in 1..Len(events[x].paths) :
                    files[events[x].paths[k]] = Some(events[x].codes[k])
              /\ \A y \in 1..Len(events) :
                    IsWrite(y) => events[y].ci # events[x].ci
    /\ \A y \in 1..Len(events) :
          IsWrite(y) =>
              \E x \in 1..y - 1 :
                  /\ IsRequest(x) /\ events[x].ci = events[y].ci
                  /\ events[x].ok /\ events[x].reply # None
                  /\ ~IsMismatch(x)
                  /\ events[y].paths[1] \in
                        {events[x].paths[k] : k \in 1..Len(events[x].paths)}

C10_Witness ==
    /\ rpc = "done" /\ rret = Some(FALSE)
    /\ editable_files = <<1, 2, 3>> /\ ClampSize(chunk_size) = 2
    /\ Len(events) = 1 /\ IsMismatch(1)
    /\ events[1].paths = <<1, 2>> /\ BlockCount(events[1].reply[1]) = 1
    /\ files[1] = Some(OriginalText) /\ files[2] = Some(OriginalText)
----------------------------------------------------------------------------
(* Properties of the orchestrator's loop over the chunks *)

RwcDone == rpc = "done"
Range(q) == {q[k] : k \in 1..Len(q)}
\* A request whose Codec/Client call raised.
IsFailedRequest(x) == IsRequest(x) /\ ~events[x].ok
\* The file has never been written: it is missing or holds its first text.
Untouched(fp) == files[fp] \in {None, Some(OriginalText)}

\* C11: fail-fast.  When the Codec/Client call of chunk k raises,
\* refactor_with_context returns False, no request is dispatched for a
\* later chunk, and no file of chunk k or of a later chunk is written.
C11_FailFast ==
    \A x \in 1..Len(events) :
        IsFailedRequest(x) =>
            /\ RwcDone /\ rret = Some(FALSE)
            /\ x = Len(events)
            /\ \A y \in 1..Len(events) :
                  y # x => events[y].ci < events[x].ci
            /\ \A j \in events[x].ci..Len(Chunks) :
                  \A fp \in Range(Chunks[j]) : Untouched(fp)

C11_Witness ==
    /\ editable_files = <<1, 2, 3>> /\ ClampSize(chunk_size) = 1
    /\ Len(events) = 3 /\ IsFailedRequest(3) /\ events[3].ci = 2
    /\ IsWrite(2) /\ files[1] = Some(<<"a">>)
    /\ files[2] = Some(OriginalText) /\ files[3] = Some(OriginalText)
    /\ rret = Some(FALSE)
HasMissing(j) == \E fp \in Range(Chunks[j]) : files[fp] = None
HasPresent(j) == \E fp \in Range(Chunks[j]) : files[fp] # None
PresentOf(j) ==
    LET IsPresent(fp) == files[fp] # None IN SelectSeq(Chunks[j], IsPresent)
NoRaise == \A x \in 1..Len(events) : IsRequest(x) => events[x].ok
WasDispatched(fp) ==
    \E x \in 1..Len(events) : IsRequest(x) /\ fp \in Range(events[x].paths)
WasWritten(fp) ==
    \E y \in 1..Len(events) : IsWrite(y) /\ events[y].paths = <<fp>>
\* The chunks after whose writes had_error is found set: they hold a
\* present file, and a missing file was seen in them or before them.
StopChunks ==
    {j \in 1..Len(Chunks) : HasPresent(j) /\ \E i \in 1..j : HasMissing(i)}
\* The last chunk the loop reaches when no Codec/Client call raises.
LastChunk ==
    IF StopChunks = {} THEN Len(Chunks)
    ELSE CHOOSE j \in StopChunks : \A i \in StopChunks : j <= i

\* C12 as stated: a missing editable file makes the result False but stops
\* nothing; without a Codec/Client exception every present file of every
\* chunk is dispatched and written back.
C12_Original ==
    (RwcDone /\ NoRaise) =>
        /\ (\E fp \in Range(editable_files) : files[fp] = None) =>
              rret = Some(FALSE)
        /\ \A fp \in Range(editable_files) :
              files[fp] # None => WasDispatched(fp) /\ WasWritten(fp)

\* What lines 240-241 and 257-258 do instead: the present files of the
\* chunk holding a missing file are dispatched and written back, and the
\* first chunk written once a missing file has been seen is the last one;
\* only a chunk without any present file is passed over without stopping.
StopsAfterChunkWithMissingFile ==
    (RwcDone /\ NoRaise) =>
        /\ rret = Some(~(\E j \in 1..LastChunk : HasMissing(j)))
        /\ \A x \in 1..Len(events) :
              IsRequest(x) => events[x].paths = PresentOf(events[x].ci)
        /\ \A j \in 1..Len(Chunks) :
              \A fp \in Range(Chunks[j]) :
                  /\ WasDispatched(fp) <=> (j <= LastChunk /\ files[fp] # None)
                  /\ WasWritten(fp) <=> (j <= LastChunk /\ files[fp] # None)

StopsAfterChunk_Reached ==
    /\ RwcDone /\ NoRaise /\ rret = Some(FALSE)
    /\ editable_files = <<1, 2, 3>> /\ ClampSize(chunk_size) = 2
    /\ files[1] = None
    /\ WasWritten(2) /\ files[2] = Some(<<"a">>)
    /\ ~WasDispatched(3) /\ files[3] = Some(OriginalText)

\* c is the block the reply to the request of fp's chunk holds for fp: the
\* k-th block for the k-th file of a multi-file request; for a single-file
\* request the first block, or the whole reply when it holds no block.
IsParsedBlockOf(fp, c) ==
    \E x \in 1..Len(events) :
        /\ IsRequest(x) /\ events[x].ok /\ events[x].reply # None
        /\ \E k \in 1..Len(events[x].paths) :
              /\ events[x].paths[k] = fp
              /\ LET r == events[x].reply[1] IN
                 IF events[x].mode = "multi"
                 THEN /\ BlockCount(r) = Len(events[x].paths)
                      /\ IsCapture(BlockInner(r, k), c)
                 ELSE IF BlockCount(r) >= 1
                      THEN IsCapture(BlockInner(r, 1), c)
                      ELSE IsCapture(r, c)
ExaminedMissing == \E fp \in Range(examined) : files[fp] = None
SomeCallRaised == \E x \in 1..Len(events) : IsFailedRequest(x)

\* C13: refactor_with_context returns True exactly when no editable file
\* it examined was missing and no chunk's Codec/Client call raised; when
\* it returns True every editable file of every chunk has been examined
\* and overwritten with its parsed block.
C13_TrueIffNoMissingNoRaise ==
    RwcDone =>
        /\ rret \in {Some(TRUE), Some(FALSE)}
        /\ (rret = Some(TRUE)) <=> (~ExaminedMissing /\ ~SomeCallRaised)
        /\ (rret = Some(TRUE)) =>
              /\ Range(examined) = Range(editable_files)
              /\ \A fp \in Range(editable_files) :
                    /\ WasWritten(fp)
                    /\ files[fp] # None
                    /\ IsParsedBlockOf(fp, files[fp][1])

C13_Witness ==
    /\ RwcDone /\ rret = Some(TRUE)
    /\ editable_files = <<1, 2, 3>> /\ ClampSize(chunk_size) = 2
    /\ files[1] = Some(<<"a">>) /\ files[2] = Some(<<"a", "a">>)
    /\ files[3] = Some(<<"b">>)

\* C14: single-file parsing.  If the reply holds at least one well-formed
\* block, the result is the content of the first block without its
\* surrounding whitespace, whatever follows it; if the reply holds no
\* block, the result is the whole reply without its leading and trailing
\* whitespace.  A result is returned for every reply (nothing is raised).
C14_FirstBlockOrWholeReply ==
    parsed_one # None =>
        IF BlockCount(reply_text) >= 1
        THEN IsCapture(BlockInner(reply_text, 1), parsed_one[1])
        ELSE IsCapture(reply_text, parsed_one[1])

C14_Witness ==
    /\ reply_text = <<BEGIN_FILE, W, "a", END_FILE, BEGIN_FILE, "b">>
    /\ parsed_one = Some(<<"a">>)

----------------------------------------------------------------------------
(* Properties of the LLM client *)

ProbeFailed == probe \in {"conn_error", "http_error"}
\* The latest POST failed in one of the ways the client treats as
\* transient: a RequestException, a status that is not ok, a body that is
\* not JSON, an object without a non-empty list of choices, a first choice
\* without message, or a message without content.
IsTransientFailure(r) ==
    \/ r.exc
    \/ ~r.ok
    \/ ~r.json
    \/ r.top = "object" /\ r.choices # "list"
    \/ /\ r.top = "object" /\ r.choices = "list" /\ r.first = "object"
       /\ \/ r.message = "absent"
          \/ r.message = "object" /\ r.content \in {None, Some(<<>>)}
\* The body is JSON of another shape than the client expects: not an
\* object, or with a first choice or a message that is not an object.
IsMalformed(r) ==
    /\ ~r.exc /\ r.ok /\ r.json
    /\ \/ r.top # "object"
       \/ r.choices = "list" /\ (r.first # "object" \/ r.message = "other")

\* C15: transient service errors never reach the caller.  After a failed
\* probe, and after a POST that failed to connect, had a status that is
\* not ok, a body that is not JSON or is structurally invalid, or an empty
\* content, _post_and_extract has not raised: it has printed a warning and
\* is about to retry.
C15_Original ==
    /\ ProbeFailed => cpc # "raised"
    /\ (response # None /\ ~IsValid(response[1])) =>
          cpc = "post" /\ cexc = "none" /\ warnings >= 1

\* C16: the probe GET /models comes before the real request.  A POST is
\* sent only after a successful probe; after a failed probe
\* _post_and_extract has raised its connectivity error and no POST has
\* been sent.
C16_PostOnlyAfterProbe ==
    /\ cpc # "probe" => probe # "none"
    /\ (n_posts > 0 \/ posted # {} \/ cpc \in {"prepare", "post", "returned"})
          => probe = "ok"
    /\ ProbeFailed =>
          /\ cpc = "raised" /\ cexc = "RuntimeError"
          /\ n_posts = 0 /\ posted = {} /\ response = None /\ cret = None

C16_Witness ==
    /\ probe = "http_error" /\ cpc = "raised" /\ cexc = "RuntimeError"
    /\ n_posts = 0

C18_RequiredFieldsNotClobbered ==
    \A p \in posted :
        /\ p["model"] = payload_arg["model"]
        /\ p["messages"] = payload_arg["messages"]
        /\ \A k \in DOMAIN cfg.params \ Reserved :
              cfg.params[k] # NONE =>
                  k \in DOMAIN p /\ p[k] = cfg.params[k]

C18_Witness ==
    /\ posted # {}
    /\ DOMAIN cfg.params = ParamKeys
    /\ cfg.params["temperature"] = "0.2"
    /\ cfg.params["response_format"] = NONE
    /\ \A p \in posted :
          /\ p["model"] = "m0" /\ p["temperature"] = "0.2"
          /\ "response_format" \notin DOMAIN p

\* C19: without force_json_mode no payload POSTed carries a
\* response_format of type json_object, whether it came with the payload
\* passed in or from params.
C19_Original ==
    ~cfg.force_json_mode =>
        \A p \in posted :
            ~("response_format" \in DOMAIN p
                /\ p["response_format"] = JSON_OBJECT)

----------------------------------------------------------------------------
(* Properties of the post-command log *)

LogRecord(cmd, e) == [command |-> cmd, rc |-> e.rc, output |-> e.out]

\* C20: every command execution of the repair loop is logged exactly once.
\* Each step that executes the command appends to the post log, in the
\* same step and before any decision on success or eligibility, exactly
\* one record holding the command, the exit code and the full output of
\* that execution; no other step touches the log; so at every moment, and
\* at termination, the records appended are those of the executions, in
\* order, and the records found at the start are still there unchanged.
C20_EveryExecutionLoggedOnce ==
    /\ [](/\ Len(postLog) >= NExecs
          /\ SubSeq(postLog, 1, Len(postLog) - NExecs) \in PriorLogs
          /\ \A k \in 1..NExecs :
                postLog[Len(postLog) - NExecs + k] = LogRecord(command, execs[k]))
    /\ [][\/ postLog' = postLog /\ execs' = execs
          \/ /\ execs' = Append(execs, [rc |-> rc', out |-> out'])
             /\ postLog' = Append(postLog, LogRecord(command, execs'[Len(execs')]))
         ]_vars

C20_Witness ==
    /\ Done /\ NExecs = 3 /\ Len(postLog) = 4
    /\ postLog[1] = [command |-> <<"m">>, rc |-> 1, output |-> <<"x">>]
    /\ postLog[2] = LogRecord(command, execs[1])
    /\ postLog[4] = LogRecord(command, execs[3])
    /\ execs[3].out = <<"y">>

\* C21: the transcript log is append-only and records successes only.  The
\* records found when _post_and_extract is called stay as they are; a call
\* that returns a reply has appended exactly one record, holding the
\* prompt and the reply returned (unparsed, without surrounding
\* whitespace), when cfg.log is enabled and none when it is disabled; a
\* failed probe and the failed POSTs of the retry loop append nothing:
\* the one step that appends is the step that returns.
C21_TranscriptAppendOnly ==
    /\ [](IF cpc = "returned" /\ cfg.log
          THEN /\ Len(llm_log) >= 1
               /\ SubSeq(llm_log, 1, Len(llm_log) - 1) \in PriorTranscripts
               /\ llm_log[Len(llm_log)] =
                     [name |-> LogName, prompt |-> Strip(PromptForLog),
                      reply |-> Strip(cret[1])]
          ELSE llm_log \in PriorTranscripts)
    /\ [][\/ llm_log' = llm_log
          \/ /\ cpc = "post" /\ cpc' = "returned" /\ cfg.log
             /\ Len(llm_log') = Len(llm_log) + 1
             /\ SubSeq(llm_log', 1, Len(llm_log)) = llm_log]_vars

C21_Witness ==
    /\ cpc = "returned" /\ cfg.log /\ warnings = 2 /\ Len(llm_log) = 2
    /\ cret = Some(<<W, "b", W>>)
    /\ llm_log[2] = [name |-> <<"f">>, prompt |-> <<"p">>, reply |-> <<"b">>]

----------------------------------------------------------------------------
(* Properties of the read-only context *)

\* The positions of the section headers in a context.
Headers(blob) == {i \in 1..Len(blob) : blob[i] \in {SKIP, ERROR, FILE}}
NthHeader(blob, k) ==
    CHOOSE i \in Headers(blob) :
        Cardinality({x \in Headers(blob) : x < i}) = k - 1
\* The header at position i of blob opens the section of path fp.
IsSectionOf(blob, i, fp) ==
    IF ctx_fs[fp] = None
    THEN /\ blob[i] = SKIP
         /\ SubSeq(blob, i + 1, i + 2) = <<"d/", ToString(fp)>>
    ELSE IF fp \in ctx_unreadable
    THEN /\ blob[i] = ERROR
         /\ SubSeq(blob, i + 1, i + 2) = <<"d/", ToString(fp)>>
    ELSE /\ blob[i] = FILE
         /\ blob[i + 1] = ToString(fp)
         /\ LET txt == ctx_fs[fp][1] IN
            /\ SubSeq(blob, i + 2, i + 4) = <<W, FENCE, W>>
            /\ SubSeq(blob, i + 5, i + 4 + Len(txt)) = txt
            /\ SubSeq(blob, i + 5 + Len(txt), i + 6 + Len(txt)) = <<W, FENCE>>

\* C22: _make_ro_context returns a context for every list of paths and
\* keeps their order: the context holds exactly one section per path, the
\* k-th section being that of the k-th path -- a skip marker for a missing
\* path, an error marker for an unreadable one, the labelled content
\* otherwise.
C22_OneSectionPerPathInOrder ==
    ctx_out # None =>
        LET blob == ctx_out[1] IN
        /\ Cardinality(Headers(blob)) = Len(ctx_files)
        /\ \A k \in 1..Len(ctx_files) :
              IsSectionOf(blob, NthHeader(blob, k), ctx_files[k])

C22_Witness ==
    /\ ctx_files = <<1, 2>> /\ ctx_fs[1] = Some(<<"a">>) /\ ctx_fs[2] = None
    /\ ctx_unreadable = {}
    /\ ctx_out = Some(<<"F", "1", W, "#", W, "a", W, "#", W, W, "S", "d/", "2">>)

----------------------------------------------------------------------------
(* Properties of the chunker *)

RECURSIVE Flatten(_)
Flatten(cs) == IF cs = <<>> THEN <<>> ELSE cs[1] \o Flatten(Tail(cs))
\* The size the chunker works with: a size below 1, None and the empty
\* string count as 1.
Effective(size) == IF size = None \/ size[1] < 1 THEN 1 ELSE size[1]

\* C23: chunking is a positional partition.  The chunks concatenated in
\* order are the input list; every chunk is non-empty; every chunk but the
\* last has exactly max(s, 1) elements and the last between 1 and
\* max(s, 1).
C23_PositionalPartition ==
    chk_out # None =>
        LET cs == chk_out[1]
            sz == Effective(chk_size) IN
        /\ Flatten(cs) = chk_items
        /\ \A k \in 1..Len(cs) :
              /\ Len(cs[k]) >= 1
              /\ Len(cs[k]) <= sz
              /\ k < Len(cs) => Len(cs[k]) = sz

C23_Witness ==
    /\ Len(chk_items) = 5 /\ chk_size = Some(2) /\ chk_out # None
    /\ Len(chk_out[1]) = 3
    /\ Len(chk_out[1][1]) = 2 /\ Len(chk_out[1][2]) = 2
    /\ Len(chk_out[1][3]) = 1

----------------------------------------------------------------------------
(* Properties of run_post_command *)

IsBlank(cmd) == \A k \in 1..Len(cmd) : cmd[k] = W

\* C24: a blank command is a no-op.  For an empty or all-whitespace
\* command run_post_command spawns no process and yields (0, ""), and
\* run_post_with_llm_retry returns 0 after that one call, without invoking
\* refactor_fn.  For any other command every execution spawns one process
\* and yields the exit code and the output that process had when it
\* exited.
C24_BlankCommandIsNoOp ==
    /\ IsBlank(command) =>
          /\ spawned = 0 /\ procs = <<>>
          /\ \A k \in 1..NExecs : execs[k] = [rc |-> 0, out |-> <<>>]
          /\ NExecs <= 1 /\ NCalls = 0 /\ lastWrite = "none"
          /\ pc \in {"start", "while", "done"}
          /\ Done => NExecs = 1 /\ ret = Some(0)
    /\ ~IsBlank(command) =>
          /\ spawned = NExecs /\ Len(procs) = NExecs
          /\ \A k \in 1..NExecs :
                execs[k].rc = procs[k].rc /\ execs[k].out = procs[k].out
          /\ (NExecs >= 1 /\ pc \in {"while", "done"}) => rc = procs[NExecs].rc

C24_Witness ==
    /\ command = <<W, W>> /\ Done /\ ret = Some(0) /\ spawned = 0
    /\ can_retry /\ retries = Some(2)

----------------------------------------------------------------------------
(* Termination of the repair loop *)

\* The three terminal outcomes.  SUCCESS: the latest execution exited 0.
\* ABORTED: a repair attempt was started and not followed by a re-run
\* (refactor_fn failed or raised, or the side-channel write failed).
\* EXHAUSTED: the latest execution failed and no attempt is left, the
\* configuration being ineligible or the budget used up.
Success == rc = 0
Aborted == rc # 0 /\ attempts >= 1 /\ NExecs = attempts
Exhausted ==
    /\ rc # 0 /\ NExecs = attempts + 1
    /\ IF can_retry THEN attempts = retries[1] ELSE attempts = 0
Bool2Nat(b) == IF b THEN 1 ELSE 0

\* C25: the repair loop always terminates, in exactly one of SUCCESS,
\* EXHAUSTED and ABORTED.  When every command execution and every
\* refactor_fn call returns, run_post_with_llm_retry returns, whatever the
\* budget, the exit codes and the outcomes of refactor_fn; and once it has
\* returned there is no further command execution, refactor_fn call,
\* side-channel write or log record.
C25_TerminatesInOneOutcome ==
    /\ <>Done
    /\ [](ret # None <=> Done)
    /\ [](Done =>
            /\ ret = Some(rc) /\ NExecs >= 1 /\ rc = LastExec.rc
            /\ Bool2Nat(Success) + Bool2Nat(Exhausted) + Bool2Nat(Aborted) = 1)
    /\ [][Done => (Done' /\ UNCHANGED <<execs, procs, spawned, refactorCalls,
                                        lastOut, lastWrite, postLog, ret,
                                        attempts>>)]_vars

C25_Witness ==
    /\ Done /\ Exhausted /\ retries = Some(2) /\ attempts = 2 /\ NExecs = 3
    /\ NCalls = 2 /\ exitPath = "loop_end"

----------------------------------------------------------------------------
(* Dispatch and write-back of the orchestrator *)

EventsOfChunk(j) == {x \in 1..Len(events) : events[x].ci = j}

\* C26: the dispatch mode goes by the number of files left in the chunk
\* once the missing ones are removed, not by the chunk size.  None left:
\* no request, and the loop goes on with the next chunk.  One left: the
\* single-file request, which never fails on the reply and takes the first
\* block or, without markers, the whole reply, which is then written to
\* the file.  Two or more: the multi-file request, accepted exactly when
\* the reply holds as many blocks as files were sent.
C26_DispatchByPresentCount ==
    /\ \A j \in 1..Len(Chunks) : ~HasPresent(j) => EventsOfChunk(j) = {}
    /\ \A j \in 1..Len(Chunks) - 1 :
          (/\ RwcDone /\ ~SomeCallRaised
           /\ \A i \in 1..j : ~HasPresent(i)
           /\ HasPresent(j + 1))
          => \E x \in EventsOfChunk(j + 1) : IsRequest(x)
    /\ \A x \in 1..Len(events) :
          IsRequest(x) =>
              LET e == events[x] IN
              /\ e.paths = PresentOf(e.ci) /\ e.paths # <<>>
              /\ e.mode = (IF Len(e.paths) = 1 THEN "single" ELSE "multi")
              /\ (e.mode = "single" /\ e.reply # None) =>
                    /\ e.ok /\ Len(e.texts) = 1
                    /\ IF BlockCount(e.reply[1]) >= 1
                       THEN IsCapture(BlockInner(e.reply[1], 1), e.texts[1])
                       ELSE IsCapture(e.reply[1], e.texts[1])
              /\ (e.mode = "multi" /\ e.reply # None) =>
                    (e.ok <=> BlockCount(e.reply[1]) = Len(e.paths))
    /\ \A y \in 1..Len(events) :
          IsWrite(y) =>
              /\ files[events[y].paths[1]] = Some(events[y].texts[1])
              /\ \E x \in 1..y - 1 :
                    /\ IsRequest(x) /\ events[x].ci = events[y].ci
                    /\ \E k \in 1..Len(events[x].paths) :
                          /\ events[x].paths[k] = events[y].paths[1]
                          /\ events[x].texts[k] = events[y].texts[1]

C26_Witness ==
    /\ RwcDone
    /\ editable_files = <<1, 2, 3>> /\ ClampSize(chunk_size) = 2
    /\ files[1] = None
    /\ Len(events) = 2
    /\ events[1].mode = "single" /\ events[1].paths = <<2>>
    /\ events[1].reply = Some(<<W, "b", W>>)
    /\ IsWrite(2) /\ files[2] = Some(<<"b">>)

\* The request of a chunk has been followed by its writes.
WritesDone(x) == ~(rpc = "write" /\ x = Len(events))

\* C27: on a successful chunk, block i of the reply is written to the
\* i-th present file of the chunk, in order; the chunk modifies no file
\* outside its present files; a file that is not listed as editable, a
\* read-only file included, is never written.
C27_PositionalWriteBack ==
    /\ [](\A x \in 1..Len(events) :
            (IsRequest(x) /\ events[x].ok /\ WritesDone(x)) =>
                LET e == events[x] IN
                /\ Len(e.texts) = Len(e.paths)
                /\ x + Len(e.paths) <= Len(events)
                /\ \A k \in 1..Len(e.paths) :
                      /\ IsWrite(x + k)
                      /\ events[x + k].ci = e.ci
                      /\ events[x + k].paths = <<PresentOf(e.ci)[k]>>
                      /\ events[x + k].texts = <<e.texts[k]>>
                      /\ e.mode = "multi" =>
                            IsCapture(BlockInner(e.reply[1], k), e.texts[k]))
    /\ [](\A fp \in Paths \ Range(editable_files) :
            /\ ~WasWritten(fp) /\ ~WasDispatched(fp)
            /\ Untouched(fp))
    /\ [][(files' # files) =>
            /\ rpc = "write"
            /\ IsRequest(Len(events)) /\ events[Len(events)].ci = ci
            /\ LET present == PresentOf(ci)
                   e == events[Len(events)] IN
               /\ \A k \in 1..Len(present) :
                     files'[present[k]] = Some(e.texts[k])
               /\ \A fp \in Paths \ Range(present) : files'[fp] = files[fp]
               /\ \A fp \in Range(read_only_files) :
                     files'[fp] # files[fp] => fp \in Range(editable_files)]_vars

C27_Witness ==
    /\ RwcDone
    /\ editable_files = <<1, 2, 3>> /\ ClampSize(chunk_size) = 3
    /\ read_only_files = <<3, 1>>
    /\ files[2] = None
    /\ Len(events) = 3 /\ events[1].mode = "multi" /\ events[1].ok
    /\ events[1].reply = Some(Render(2))
    /\ files[1] = Some(<<"a">>) /\ files[3] = Some(<<"a", "a">>)

----------------------------------------------------------------------------
(* The read-only context of a call of refactor_with_context *)

\* sub is a run of consecutive tokens of s.
Occurs(sub, s) ==
    \E i \in 0..Len(s) - Len(sub) : SubSeq(s, i + 1, i + Len(sub)) = sub

\* The contexts _make_ro_context can assemble from the files as they are.
ContextsNow ==
    {Some(_make_ro_context(read_only_files, FileSystem, u)) :
        u \in SUBSET Range(read_only_files)}

----------------------------------------------------------------------------
(* Properties of the repair loop run with refactor_with_context *)

\* The side-channel file as the context shows it, or the marker put in
\* its place when it cannot be read.
ShowsSideChannel(ctx) ==
    \/ Occurs(Section(LAST_OUT, FileSystem, {}), ctx)
    \/ Occurs(<<ERROR>> \o PathText(LAST_OUT), ctx)

\* C28: within one call of refactor_with_context the read-only context
\* is assembled exactly once, before any chunk is dispatched, from the
\* read-only files as they are then; every request of the call carries
\* that same context, whatever the earlier chunks have written since.
\* Each repair attempt makes a new call, whose context is assembled anew
\* and shows the side-channel file with the output of the failing
\* execution that led to the attempt.
C28_ContextAssembledOncePerCall ==
    /\ [][(ro_context' # ro_context) =>
            \/ pc = "call" /\ pc' = "in_call" /\ ro_context' = None
            \/ /\ pc = "in_call" /\ ro_context = None /\ events = <<>>
               /\ ro_context' \in ContextsNow]_vars
    /\ [](\A x \in 1..Len(events) :
            IsRequest(x) =>
                /\ ro_context # None
                /\ events[x].context = ro_context)
    /\ []((pc = "in_call" /\ ro_context # None) =>
            /\ lastOut = Some(execs[NExecs].out)
            /\ execs[NExecs].rc # 0
            /\ NExecs = attempts
            /\ ShowsSideChannel(ro_context[1]))

C28_Witness ==
    /\ pc = "in_call" /\ attempts = 2
    /\ execs[1].out = <<"x">> /\ execs[2].out = <<"y">>
    /\ read_only_files = <<1, LAST_OUT>> /\ ClampSize(chunk_size) = 1
    /\ Len(events) = 3 /\ IsRequest(1) /\ IsWrite(2) /\ IsRequest(3)
    /\ files[1] = Some(<<"b">>)
    /\ events[3].context = events[1].context
    /\ events[3].context # CurrentContext
    /\ Occurs(Section(LAST_OUT, FileSystem, {}), ro_context[1])
    /\ Occurs(<<"y">>, ro_context[1])

\* C29: no rollback on abort.  When a chunk of a call of
\* refactor_with_context fails, the call returns False and the files the
\* earlier chunks of the call wrote keep the text written; the loop then
\* returns without executing the command again, and the exit code it
\* returns is that of the execution made before the call, hence before
\* those files were rewritten.
C29_NoRollbackOnAbort ==
    /\ [](\A k \in 1..NCalls :
            refactorCalls[k].result = "false" =>
                /\ Done /\ exitPath = "llm_false"
                /\ k = NCalls /\ NExecs = k
                /\ ret = Some(execs[k].rc)
                /\ rret = Some(FALSE)
                /\ \A y \in 1..Len(events) :
                      IsWrite(y) =>
                          files[events[y].paths[1]] = Some(events[y].texts[1]))
    /\ [](pc = "in_call" => NExecs = NCalls + 1)
    /\ [][(files' # files) =>
            /\ pc = "in_call" /\ pc' = "in_call"
            /\ execs' = execs /\ rc' = rc]_vars
    /\ [][(ret' # ret) => (ret = None /\ ret' = Some(rc) /\ files' = files)]_vars

C29_Witness ==
    /\ Done /\ exitPath = "llm_false"
    /\ NCalls = 1 /\ NExecs = 1 /\ execs[1].rc = 2 /\ ret = Some(2)
    /\ ClampSize(chunk_size) = 1
    /\ Len(events) = 3 /\ IsRequest(1) /\ IsWrite(2) /\ IsFailedRequest(3)
    /\ events[3].ci = 2
    /\ files[1] = Some(<<"a">>) /\ files[2] = Some(OriginalText)

\* The latest write of the side-channel file failed.
LastWriteFailed == lastWrite \in {"fail", "fail_truncated"}

\* C30: when the write of the side-channel file fails in a repair
\* attempt, run_post_with_llm_retry returns at once the exit code of the
\* latest execution: refactor_with_context is not called for that attempt,
\* no file is modified, and the command is not executed again.
C30_WriteFailureReturnsAtOnce ==
    /\ [](LastWriteFailed =>
            /\ Done /\ exitPath = "write_failed"
            /\ ret = Some(rc) /\ rc = execs[NExecs].rc
            /\ NExecs = attempts /\ NCalls = attempts - 1
            /\ attempts = 1 => (events = <<>> /\ \A fp \in Paths : Untouched(fp))
            /\ attempts > 1 => (RwcDone /\ rret = Some(TRUE)))
    /\ [][LastWriteFailed' =>
            /\ files' = files /\ events' = events
            /\ execs' = execs /\ spawned' = spawned
            /\ refactorCalls' = refactorCalls]_vars

C30_Witness ==
    /\ Done /\ exitPath = "write_failed" /\ lastWrite = "fail"
    /\ attempts = 2 /\ NExecs = 2 /\ NCalls = 1
    /\ execs[1].rc = 1 /\ execs[2].rc = 2 /\ ret = Some(2)
    /\ files[1] = Some(<<"a">>) /\ files[2] = Some(<<"b">>)
    /\ lastOut = Some(execs[1].out) /\ execs[1].out # execs[2].out

----------------------------------------------------------------------------
(* Properties of the main pipeline *)

\* The LLM step is skipped: --skip llm, or no editable file.
LlmSkipped == "llm" \in skip \/ ed_abs = <<>>

\* C31: in the main pipeline the post command runs only if the LLM step
\* succeeded or was skipped (--skip llm or an empty editable set); when
\* refactor_with_context returns False or raises, the process exits with
\* status 1 and the post command is never executed.
C31_PostOnlyAfterLlmSuccessOrSkip ==
    /\ llm_step = "skipped" => LlmSkipped
    /\ llm_step \in {"true", "false", "raise"} => ~LlmSkipped
    /\ post_calls > 0 => llm_step \in {"true", "skipped"}
    /\ llm_step \in {"false", "raise"} =>
          /\ mpc = "exited" /\ exit_status = Some(1)
          /\ post_calls = 0 /\ post_spawned = 0
          /\ \A k \in 1..Len(ran) : ran[k] # "post"
    /\ post_calls > 0 =>
          (mpc = "exited" /\ exit_status = Some(0) /\ ran[Len(ran)] = "post")

C31_Witness ==
    /\ llm_step = "false" /\ exit_status = Some(1)
    /\ skip = {} /\ post_cmd = <<"m">>
    /\ ran = <<"cmakelists", "presets", "llm">>
    /\ post_calls = 0

----------------------------------------------------------------------------
(* Properties of _prune_presets *)

PruneReturned == pr_ret # None
\* The names selected, and the configure presets of the document handed in.
SelectedNames == {pr_selected[k] : k \in 1..Len(pr_selected)}
GivenConfigure == pr_doc0.configurePresets
\* The parents of a configure preset that exist in the document.
ParentsOf(n) ==
    {m \in PresetNames(GivenConfigure) :
        \E k \in 1..Len(GivenConfigure) :
            /\ GivenConfigure[k].name = n
            /\ \A j \in k + 1..Len(GivenConfigure) : GivenConfigure[j].name # n
            /\ m \in Range(Parents(GivenConfigure[k].inherits))}
\* The least set of names that holds S and the parents of its members.
RECURSIVE InheritsClosure(_)
InheritsClosure(S) ==
    LET T == S \cup UNION {ParentsOf(n) : n \in S} IN
    IF T = S THEN S ELSE InheritsClosure(T)
\* The presets a step of the given type can name in the document returned.
KeptOfType(type) ==
    CASE type = "configure" -> PresetNames(pr_ret[1].configurePresets)
      [] type = "build" -> PresetNames(pr_ret[1].buildPresets)
      [] type = "test" -> PresetNames(pr_ret[1].testPresets)
      [] OTHER -> {}
\* Every name of any kept preset.
KeptNames ==
    KeptOfType("configure") \cup KeptOfType("build") \cup KeptOfType("test")

\* The kept configure presets are the selected names that exist and the
\* transitive closure of their parents, in the order of the document.
KeptConfigureIsClosure ==
    LET closure ==
            InheritsClosure(SelectedNames \cap PresetNames(GivenConfigure))
        InClosure(p) == p.name \in closure IN
    pr_ret[1].configurePresets = SelectSeq(GivenConfigure, InClosure)

\* Every kept build and test preset refers to a selected name.
KeptBuildTestSelected ==
    LET kept == pr_ret[1] IN
    /\ \A k \in 1..Len(kept.buildPresets) :
          kept.buildPresets[k].configurePreset \in SelectedNames
    /\ \A k \in 1..Len(kept.testPresets) :
          kept.testPresets[k].configurePreset \in SelectedNames

\* Every kept workflow has steps, and each step name is the name of some
\* kept preset, of whatever type.
KeptStepsNameKeptPresets ==
    LET wfs == pr_ret[1].workflowPresets IN
    \A k \in 1..Len(wfs) :
        /\ wfs[k].steps # <<>>
        /\ \A i \in 1..Len(wfs[k].steps) : wfs[k].steps[i].name \in KeptNames

\* The document returned is referentially closed: a kept build or test
\* preset refers to a kept configure preset, and a step of a kept workflow
\* refers to a kept preset of the step's type.
ReferentiallyClosed ==
    LET kept == pr_ret[1] IN
    /\ \A k \in 1..Len(kept.buildPresets) :
          kept.buildPresets[k].configurePreset \in KeptOfType("configure")
    /\ \A k \in 1..Len(kept.testPresets) :
          kept.testPresets[k].configurePreset \in KeptOfType("configure")
    /\ \A k \in 1..Len(kept.workflowPresets) :
          \A i \in 1..Len(kept.workflowPresets[k].steps) :
              LET s == kept.workflowPresets[k].steps[i] IN
              s.name \in KeptOfType(s.type)

\* C32: _prune_presets keeps a referentially closed document.  For a
\* non-empty selection the kept configure presets are exactly the selected
\* names that exist and the transitive closure of their inherits parents,
\* every kept build and test preset refers to a selected configure preset,
\* and every kept workflow has a non-empty list of steps that all name
\* kept presets; for an empty selection the document is returned
\* unchanged.  Checked on the master template, the document the program
\* prunes.
C32_Original ==
    (PruneReturned /\ pr_doc0 = MasterTemplate) =>
        /\ pr_selected = <<>> => pr_ret[1] = pr_doc0
        /\ pr_selected # <<>> =>
              /\ KeptConfigureIsClosure
              /\ KeptBuildTestSelected
              /\ KeptStepsNameKeptPresets
              /\ ReferentiallyClosed

\* What the code does keep, on every document: the clauses of C32 read
\* name by name, without the types of the steps.
PruneKeepsNamesOnly ==
    PruneReturned =>
        /\ pr_selected = <<>> => pr_ret[1] = pr_doc0
        /\ pr_selected # <<>> =>
              /\ KeptConfigureIsClosure
              /\ KeptBuildTestSelected
              /\ KeptStepsNameKeptPresets

\* The selection that shows the divergence: the release preset is kept
\* with its parent ninja-clangcl-debug, whose build and test presets are
\* dropped while the workflow that runs them stays.
DanglingWorkflowReached ==
    /\ PruneReturned /\ pr_doc0 = MasterTemplate
    /\ pr_selected = <<"ninja-clangcl-release">>
    /\ PresetNames(pr_ret[1].workflowPresets) = {"ci-win-debug"}
    /\ PresetNames(pr_ret[1].buildPresets) = {"ninja-clangcl-release"}
    /\ ~ReferentiallyClosed

====
